---- MODULE Spec2Model ----
(***************************************************************************)
(* A model of generate.py, the panchangam calendar generator.              *)
(*                                                                         *)
(* Instants are integers (ticks).  A civil date is the integer quotient of *)
(* a local instant by DayTicks.  Instants and day numbers are never       *)
(* negative; None (Python's None) is the value -1.                         *)
(*                                                                         *)
(* The module holds several specifications over disjoint variable groups:  *)
(*   SpecSeries  the transition-table engine (precompute_discrete,         *)
(*               value_at, transitions_between)                            *)
(*   SpecEpoch   the new-year epoch resolvers (mesha_sankranti_utc,        *)
(*               puthandu_civil_date, ugadi_civil_date)                    *)
(* Each specification keeps the other groups' variables idle.              *)
(***************************************************************************)
EXTENDS Integers, Sequences, FiniteSets, TLC

None == -1

\* ------------------------------------------------------------------------
\* Bounds of the model
\* ------------------------------------------------------------------------
\* last instant of the horizon [0, MaxT] of a precomputed series
MaxT == 6
\* sampling step of the discrete search, in ticks
SampleStep == 2

\* ------------------------------------------------------------------------
\* Program constants
\* ------------------------------------------------------------------------
\* tithi_idx yields 1..30: floor(normalize(moon - sun) / 12) + 1
NumTithi == 30

\* ------------------------------------------------------------------------
\* Variables
\* ------------------------------------------------------------------------
VARIABLES
    \* --- transition-table engine ---
    fn,        \* the step function sampled by find_discrete: [0..MaxT -> 1..NumTithi]
    changes,   \* list of change instants, as precompute_discrete returns it
    values,    \* list of the values taken at those instants
    built,     \* whether precompute_discrete has run
    query,     \* the last lookup made: [op, a, b]
    answer,    \* its result: [kind, v, trans]
    \* --- epoch resolver ---
    epOp,      \* how far the resolver got: "none", "mesha", "puthandu", "ugadi"
    epIn,      \* the ephemeris answers it was given
    ingress,   \* what mesha_sankranti_utc returned: [kind, t]
    epOut,     \* what the resolver returned: [kind, d], d a day number
    \* --- samvatsara resolver ---
    svYear,    \* the Gregorian year of the next date to resolve
    svSide,    \* where the dates lie in their year: "before" or "onOrAfter" the new year
    svLast,    \* the last call: [d, ny, name]
    svNames,   \* the names resolved so far, one per year
    \* --- calculators and rule engine applied to one day ---
    ruOp,      \* what was applied: "none", "calculators", "festivals", "vratams"
    ruIn,      \* the day's attributes it was applied to
    ruOut,     \* what it returned
    \* --- build_calendar ---
    bcPhase,   \* "idle", "loop" (the day loop and what follows it), "done"
    bcLoc,     \* the location's style, the weekday of start_d, s_info, l_info
    sunr,      \* local date -> its sunrise, or None
    suns,      \* local date -> its sunset, or None
    bcTables,  \* the tithi and nakshatra transition tables (t_ch, t_v, n_ch, n_v)
    bcD,       \* the loop variable d
    bcManual,  \* the manual events file, once it has been read
    cal,       \* cal.events, in the order the events were added
    seen_uids, \* the UIDs added so far
    \* --- consecutive days of one lunar month ---
    wkPhase,   \* "idle", "month" (days are being evaluated), "over"
    wkMonth,   \* the lunar month index of the days
    wkDay,     \* the number of days evaluated so far
    wkWd,      \* today's weekday
    wkTithi,   \* today's tithi at sunrise
    wkAdv,     \* by how much the sunrise tithi advanced since yesterday
    wkLog,     \* the festival hits so far: [day, wd, t_now, name]
    \* --- month_day_numbers_solar ---
    soPhase,   \* "idle", "ingresses" (found), "starts" (month_starts built), "done"
    soIn,      \* the ingresses found: [t, rasi, sr, ss], and the rasi before them
    soStarts,  \* month_starts: local date -> month index, or None
    soRes,     \* res: local date -> [midx, day], once built
    \* --- get_lunar_month_map ---
    luPhase,   \* "idle", "newyear", "tithis" (the table is found), "transitions", "done"
    luIn,      \* the tithi table, the sun's rasi phase, the sunrise of each date
    luTrans,   \* month_transitions: [t, midx]
    luRes,     \* res: local date -> lunar month index, once built
    luNy       \* ny_dates[y] of a TELUGU location: what ugadi_civil_date returned

seriesVars == <<fn, changes, values, built, query, answer>>

epochVars == <<epOp, epIn, ingress, epOut>>

samvVars == <<svYear, svSide, svLast, svNames>>

rulesVars == <<ruOp, ruIn, ruOut>>

dayVars == <<bcPhase, bcLoc, sunr, suns, bcTables, bcD, bcManual, cal, seen_uids>>

walkVars == <<wkPhase, wkMonth, wkDay, wkWd, wkTithi, wkAdv, wkLog>>

solarVars == <<soPhase, soIn, soStarts, soRes>>

lunarVars == <<luPhase, luIn, luTrans, luRes, luNy>>

vars == <<seriesVars, epochVars, samvVars, rulesVars, dayVars, walkVars, solarVars, lunarVars>>

\* what the actions of one component leave alone
notSeriesVars == <<epochVars, samvVars, rulesVars, dayVars, walkVars, solarVars, lunarVars>>

notEpochVars == <<seriesVars, samvVars, rulesVars, dayVars, walkVars, solarVars, lunarVars>>

notSamvVars == <<seriesVars, epochVars, rulesVars, dayVars, walkVars, solarVars, lunarVars>>

notRulesVars == <<seriesVars, epochVars, samvVars, dayVars, walkVars, solarVars, lunarVars>>

notDayVars == <<seriesVars, epochVars, samvVars, rulesVars, walkVars, solarVars, lunarVars>>

notWalkVars == <<seriesVars, epochVars, samvVars, rulesVars, dayVars, solarVars, lunarVars>>

notSolarVars == <<seriesVars, epochVars, samvVars, rulesVars, dayVars, walkVars, lunarVars>>

notLunarVars == <<seriesVars, epochVars, samvVars, rulesVars, dayVars, walkVars, solarVars>>

\* ------------------------------------------------------------------------
\* Helpers
\* ------------------------------------------------------------------------
Instants == 0..MaxT

\* the elements of a finite set of integers in increasing order
RECURSIVE SortedSeq(_)
SortedSeq(S) ==
    IF S = {} THEN <<>>
    ELSE LET m == CHOOSE x \in S : \A y \in S : x <= y
         IN <<m>> \o SortedSeq(S \ {m})

\* the cyclic successor chain of an index function: 1 -> 2 -> ... -> 30 -> 1
CycleTithi(v, k) == ((v - 1 + k) % NumTithi) + 1

\* A step function of the kind tithi_idx is: it starts at v0 and advances by
\* one (cyclically) at each instant of C.
StepFn(v0, C) ==
    [t \in Instants |-> CycleTithi(v0, Cardinality({c \in C : c <= t}))]

\* ------------------------------------------------------------------------
\* bisect (Python standard library), on 0-based positions of a 1-based Seq
\* ------------------------------------------------------------------------
RECURSIVE bisect_right_loop(_, _, _, _)
bisect_right_loop(a, x, lo, hi) ==
    IF lo < hi
    THEN LET mid == (lo + hi) \div 2
         IN IF x < a[mid + 1]
            THEN bisect_right_loop(a, x, lo, mid)
            ELSE bisect_right_loop(a, x, mid + 1, hi)
    ELSE lo

RECURSIVE bisect_left_loop(_, _, _, _)
bisect_left_loop(a, x, lo, hi) ==
    IF lo < hi
    THEN LET mid == (lo + hi) \div 2
         IN IF a[mid + 1] < x
            THEN bisect_left_loop(a, x, mid + 1, hi)
            ELSE bisect_left_loop(a, x, lo, mid)
    ELSE lo

bisect_right(a, x) == bisect_right_loop(a, x, 0, Len(a))

bisect_left(a, x) == bisect_left_loop(a, x, 0, Len(a))

\* ------------------------------------------------------------------------
\* Transition-table engine
\* ------------------------------------------------------------------------
\* find_discrete samples f every SampleStep ticks from t0, and at t1; between
\* two consecutive samples that differ it refines down to the tick and
\* reports every change it meets there, with the value taken at the change.
SamplePoints(t0, t1) == {t \in t0..t1 : (t - t0) % SampleStep = 0} \cup {t1}

Bracketed(f, t0, t1, t) ==
    \E s1, s2 \in SamplePoints(t0, t1) :
        /\ s1 < s2
        /\ \A s \in SamplePoints(t0, t1) : ~(s1 < s /\ s < s2)
        /\ s1 < t /\ t <= s2
        /\ f[s1] # f[s2]

precompute_discrete(t0, t1, f) ==
    LET found == {t \in (t0 + 1)..t1 : f[t] # f[t - 1] /\ Bracketed(f, t0, t1, t)}
        times == SortedSeq(found)
    IN [changes |-> times, values |-> [i \in 1..Len(times) |-> f[times[i]]]]

\* value_at: values[0] if i < 0 else values[i]; an empty list raises IndexError
value_at_left(t_utc, chs, vals) ==
    LET i == bisect_left(chs, t_utc) - 1
    IN IF Len(vals) = 0 THEN [kind |-> "IndexError", v |-> 0]
       ELSE IF i < 0 THEN [kind |-> "value", v |-> vals[1]]
       ELSE [kind |-> "value", v |-> vals[i + 1]]

value_at(t_utc, chs, vals) ==
    LET i == bisect_right(chs, t_utc) - 1
    IN IF Len(vals) = 0 THEN [kind |-> "IndexError", v |-> 0]
       ELSE IF i < 0 THEN [kind |-> "value", v |-> vals[1]]
       ELSE [kind |-> "value", v |-> vals[i + 1]]

\* transitions_between: [(changes[k], values[k]) for k in range(i, j)]
transitions_between_left(a_utc, b_utc, chs, vals) ==
    LET i == bisect_left(chs, a_utc)
        j == bisect_left(chs, b_utc)
    IN [k \in 1..(IF j > i THEN j - i ELSE 0) |-> <<chs[i + k], vals[i + k]>>]

transitions_between(a_utc, b_utc, chs, vals) ==
    LET i == bisect_right(chs, a_utc)
        j == bisect_left(chs, b_utc)
    IN [k \in 1..(IF j > i THEN j - i ELSE 0) |-> <<chs[i + k], vals[i + k]>>]

NoQuery == [op |-> "none", a |-> 0, b |-> 0]
NoAnswer == [kind |-> "none", v |-> 0, trans |-> <<>>]

SeriesIdle ==
    /\ fn = <<>>
    /\ changes = <<>>
    /\ values = <<>>
    /\ built = FALSE
    /\ query = NoQuery
    /\ answer = NoAnswer

SeriesInit ==
    /\ \E v0 \in 1..NumTithi, C \in SUBSET (1..MaxT) : fn = StepFn(v0, C)
    /\ changes = <<>>
    /\ values = <<>>
    /\ built = FALSE
    /\ query = NoQuery
    /\ answer = NoAnswer

\* main: tch, tv = precompute_discrete(ts, t0, t1, ft)
Precompute ==
    /\ ~built
    /\ LET s == precompute_discrete(0, MaxT, fn)
       IN /\ changes' = s.changes
          /\ values' = s.values
    /\ built' = TRUE
    /\ UNCHANGED <<fn, query, answer>>
    /\ UNCHANGED notSeriesVars

\* A caller looks the value up at instant t.  Lookups leave the series as it
\* is, so one lookup per behaviour covers every lookup the program makes.
ValueAt ==
    /\ built
    /\ query.op = "none"
    /\ \E t \in Instants :
        /\ query' = [op |-> "value_at", a |-> t, b |-> 0]
        /\ answer' = [kind |-> value_at(t, changes, values).kind,
                      v |-> value_at(t, changes, values).v,
                      trans |-> <<>>]
    /\ UNCHANGED <<fn, changes, values, built>>
    /\ UNCHANGED notSeriesVars

\* a caller lists the transitions of a window [a, b)
TransitionsBetween ==
    /\ built
    /\ query.op = "none"
    /\ \E a, b \in Instants :
        /\ query' = [op |-> "transitions_between", a |-> a, b |-> b]
        /\ answer' = [kind |-> "list", v |-> 0,
                      trans |-> transitions_between(a, b, changes, values)]
    /\ UNCHANGED <<fn, changes, values, built>>
    /\ UNCHANGED notSeriesVars

SeriesNext ==
    \/ Precompute
    \/ ValueAt
    \/ TransitionsBetween

\* ========================================================================
\* Epoch resolver
\* ========================================================================
\* Bounds of the epoch model
\* ticks in one 2-hour sampling step of mesha_sankranti_utc
StepTicks == 4
\* the location's UTC offset in ticks (astimezone(tz))
TzOffset == 3

\* Program constants
\* step = timedelta(hours=2): 12 steps to the day
StepsPerDay == 12
\* t0 = April 10, t1 = April 18
BracketDays == 8
\* for _ in range(50)
BisectIters == 50
\* for d_off in range(3)
UgadiScanDays == 3
\* 320 <= s_lon < 360
UgadiLonLow == 320
UgadiLonHigh == 360
\* date(year, 4, 1), counted in days from t_start = March 10
FallbackApril1 == 22

DayTicks == StepsPerDay * StepTicks
\* the bracket [BracketT0, BracketT1] of mesha_sankranti_utc; tick 0 is
\* April 9, 00:00 UTC, so that no instant of the model is negative
BracketT0 == DayTicks
BracketT1 == BracketT0 + BracketDays * DayTicks

\* dt.astimezone(tz).date(): the local civil date of an instant, as a day number
local_date(t) == (t + TzOffset) \div DayTicks

\* the instant a local date begins
local_midnight(d) == d * DayTicks - TzOffset

\* The sidereal solar longitude.  The sun moves one degree a day; longitudes
\* are counted in units of 1/(2*DayTicks) degree, so that the longitude at
\* tick t is 2*t - z2 (mod the full circle), z2/2 being the tick of ingress:
\* an even z2 puts longitude exactly 0 on a tick, an odd z2 between two ticks.
LonCircle == 360 * 2 * DayTicks

sun_sidereal_lon_deg(z2, t) == (2 * t - z2) % LonCircle

wrap180(x) == ((x + (LonCircle \div 2)) % LonCircle) - (LonCircle \div 2)

\* timedelta / 2: the quotient rounded to the clock's resolution, half to even
HalfRounded(n) ==
    LET q == n \div 2
    IN IF n % 2 = 0 THEN q
       ELSE IF q % 2 = 0 THEN q ELSE q + 1

\* the while loop of mesha_sankranti_utc: the first pair of consecutive
\* samples with prev_f < 0 and cur_f > 0, or <<>> (bracket = None)
RECURSIVE bracket_scan(_, _, _)
bracket_scan(z2, prev_dt, cur) ==
    IF cur <= BracketT1
    THEN LET prev_f == wrap180(sun_sidereal_lon_deg(z2, prev_dt))
             cur_f == wrap180(sun_sidereal_lon_deg(z2, cur))
         IN IF prev_f < 0 /\ cur_f > 0
            THEN <<prev_dt, cur>>
            ELSE bracket_scan(z2, cur, cur + StepTicks)
    ELSE <<>>

\* the for loop of mesha_sankranti_utc: n halvings of [lo, hi]
RECURSIVE bisect_ingress(_, _, _, _)
bisect_ingress(z2, lo, hi, n) ==
    IF n = 0 THEN [lo |-> lo, hi |-> hi]
    ELSE LET mid == lo + HalfRounded(hi - lo)
         IN IF wrap180(sun_sidereal_lon_deg(z2, mid)) > 0
            THEN bisect_ingress(z2, lo, mid, n - 1)
            ELSE bisect_ingress(z2, mid, hi, n - 1)

\* mesha_sankranti_utc returns an instant in every case: t0 when no bracket
\* was found, the bisection's lo otherwise.  It raises nothing.
mesha_sankranti_utc(z2) ==
    LET bracket == bracket_scan(z2, BracketT0, BracketT0 + StepTicks)
    IN IF bracket = <<>>
       THEN [kind |-> "instant", t |-> BracketT0]
       ELSE [kind |-> "instant",
             t |-> bisect_ingress(z2, bracket[1], bracket[2], BisectIters).lo]

\* puthandu_civil_date, given the ingress and the (sr, ss) that
\* sunrise_sunset_for_local_date answers for the ingress's local date
puthandu_rule(ing, sr, ss) ==
    LET d == local_date(ing)
    IN IF sr # None /\ ss # None /\ ing > ss THEN d + 1 ELSE d

\* ugadi_civil_date.  events is what find_discrete(moon_phases) answers for
\* March 10 .. April 20: records [phase, lon, day, tids, nosr] with
\*   phase  the phase that begins (0 = new moon)
\*   lon    sun_sidereal_lon_deg at the event, in whole degrees
\*   day    the event's local civil date, in days from March 10
\*   tids   tithi_idx at the sunrise of day, day+1, day+2
\*   nosr   the offset of the one scanned day that has no sunrise, or None
\* The scan of one new moon: the first d_off whose sunrise carries tithi 1.
RECURSIVE ugadi_scan(_, _)
ugadi_scan(ev, d_off) ==
    IF d_off >= UgadiScanDays THEN None
    ELSE IF ev.nosr # d_off /\ ev.tids[d_off + 1] = 1 THEN ev.day + d_off
    ELSE ugadi_scan(ev, d_off + 1)

RECURSIVE ugadi_loop(_, _)
ugadi_loop(events, i) ==
    IF i > Len(events) THEN [kind |-> "date", d |-> FallbackApril1]
    ELSE LET ev == events[i]
             hit == IF ev.phase = 0 /\ UgadiLonLow <= ev.lon /\ ev.lon < UgadiLonHigh
                    THEN ugadi_scan(ev, 0) ELSE None
         IN IF hit # None THEN [kind |-> "date", d |-> hit]
            ELSE ugadi_loop(events, i + 1)

ugadi_civil_date(events) == ugadi_loop(events, 1)

\* ------------------------------------------------------------------------
\* The ephemeris answers the model draws
\* ------------------------------------------------------------------------
\* ingress positions: before the bracket, every half tick inside it, after it
IngressZ2 == (2 * BracketT0 - 4)..(2 * BracketT1 + 4)

\* the ticks whose local civil date is d
TicksOfDate(d) == {t \in (d * DayTicks - TzOffset)..((d + 1) * DayTicks - TzOffset - 1) : TRUE}

\* sun longitudes at a new moon: below, at and inside the window's ends, past 360
MoonLons == {319, 320, 329, 330, 359, 0}

\* sunrise tithis of the three scanned days: the new moon falls after the
\* first sunrise (30) or before it (1); a tithi holds one or two sunrises, or none
MoonTids == {<<1, 1, 2>>, <<1, 2, 3>>, <<30, 1, 2>>, <<30, 1, 1>>, <<30, 2, 3>>}

NewMoons(days) ==
    [phase : {0}, lon : MoonLons, day : days, tids : MoonTids, nosr : {None, 0, 1, 2}]

FullMoon(day) ==
    [phase |-> 2, lon |-> 340, day |-> day, tids |-> <<15, 16, 17>>, nosr |-> None]

\* one new moon in the window, or two of them a lunation apart around a full moon
MoonEvents ==
    {<<m>> : m \in NewMoons({12, 20})}
    \cup {<<m1, FullMoon(m1.day + 15), m2>> :
            m1 \in NewMoons({5}), m2 \in NewMoons({35})}

\* nothing returned yet
NoResult == [kind |-> "none"]

EpochIdle ==
    /\ epOp = "none"
    /\ epIn = <<>>
    /\ ingress = NoResult
    /\ epOut = NoResult

EpochInit == EpochIdle

\* puthandu_civil_date, first line: ingress = mesha_sankranti_utc(year, ...)
MeshaSankranti ==
    /\ epOp = "none"
    /\ \E z2 \in IngressZ2 :
        /\ epIn' = [z2 |-> z2, sr |-> None, ss |-> None]
        /\ ingress' = mesha_sankranti_utc(z2)
    /\ epOp' = "mesha"
    /\ UNCHANGED epOut
    /\ UNCHANGED notEpochVars

\* puthandu_civil_date, the rest: the sunrise and sunset of the ingress's
\* local date are asked for and the civil date is returned
Puthandu ==
    /\ epOp = "mesha"
    /\ \E sr \in {None, local_date(ingress.t) * DayTicks - TzOffset + 1},
          ss \in {None} \cup TicksOfDate(local_date(ingress.t)) :
        /\ epIn' = [epIn EXCEPT !.sr = sr, !.ss = ss]
        /\ epOut' = [kind |-> "date", d |-> puthandu_rule(ingress.t, sr, ss)]
    /\ epOp' = "puthandu"
    /\ UNCHANGED ingress
    /\ UNCHANGED notEpochVars

\* build_calendar, TELUGU: ny_dates[y] = ugadi_civil_date(y, ...)
Ugadi ==
    /\ epOp = "none"
    /\ \E events \in MoonEvents :
        /\ epIn' = [events |-> events]
        /\ epOut' = ugadi_civil_date(events)
    /\ UNCHANGED ingress
    /\ epOp' = "ugadi"
    /\ UNCHANGED notEpochVars

EpochNext ==
    \/ MeshaSankranti
    \/ Puthandu
    \/ Ugadi

\* ========================================================================
\* Samvatsara resolver
\* ========================================================================
\* Bounds of the samvatsara model
\* days in a model year, numbered 0..YearLen-1
YearLen == 5
\* consecutive years resolved in one behaviour
SamvatsaraRun == 61

\* Program constants
BASE_SAMVATSARA_YEAR == 1987

SAMVATSARA_NAMES == <<
    "Prabhava", "Vibhava", "Shukla", "Pramodadhoota", "Prajapati", "Angirasa", "Srimukha", "Bhava", "Yuva", "Dhatu",
    "Eeswara", "Vehudhanya", "Pramathi", "Vikrama", "Vishu", "Chitrabhanu", "Subhanu", "Dharana", "Parthiba", "Viya",
    "Sarvajit", "Sarvadhari", "Virodhi", "Vikruthi", "Kara", "Nandhana", "Vijaya", "Jaya", "Manmatha", "Dhunmuki",
    "Hevilambi", "Vilambi", "Vikari", "Sarvari", "Plava", "Subhakrit", "Shobakrit", "Krodhi", "Vishvavasu", "Parabhava",
    "Plavanga", "Keelaka", "Soumya", "Sadharana", "Virodhakrit", "Paridhabi", "Pramadhicha", "Anandha", "Rakshasa", "Nala",
    "Pingala", "Kalayukti", "Siddharthi", "Raudhri", "Dhunmathi", "Dhundubhi", "Rudhirothgari", "Rakshasi", "Krodhana", "Akshaya" >>

\* a datetime.date: [year, n], n the day within the year; NoDate is None
NoDate == [year |-> -1, n |-> -1]

\* d >= e on dates
DateGE(d, e) == d.year > e.year \/ (d.year = e.year /\ d.n >= e.n)

DateGT(d, e) == d.year > e.year \/ (d.year = e.year /\ d.n > e.n)

\* new_year_dates.get(y)
DictGet(m, y) == IF y \in DOMAIN m THEN m[y] ELSE NoDate

samvatsara_for_date_strict(d, new_year_dates) ==
    LET y == d.year
        ny == DictGet(new_year_dates, y)
        sy == IF ny # NoDate /\ DateGT(d, ny) THEN y ELSE y - 1
    IN SAMVATSARA_NAMES[((sy - BASE_SAMVATSARA_YEAR) % 60) + 1]

samvatsara_for_date(d, new_year_dates) ==
    LET y == d.year
        ny == DictGet(new_year_dates, y)
        sy == IF ny # NoDate /\ DateGE(d, ny) THEN y ELSE y - 1
    IN SAMVATSARA_NAMES[((sy - BASE_SAMVATSARA_YEAR) % 60) + 1]

\* years the runs start in: before, at and after the base year
StartYears == {BASE_SAMVATSARA_YEAR - 61, BASE_SAMVATSARA_YEAR, BASE_SAMVATSARA_YEAR + 39}

SamvIdle ==
    /\ svYear = 0
    /\ svSide = "none"
    /\ svLast = <<>>
    /\ svNames = <<>>

SamvInit ==
    /\ svYear \in StartYears
    /\ svSide \in {"before", "onOrAfter"}
    /\ svLast = <<>>
    /\ svNames = <<>>

\* daily_panchangam: yr_name = samvatsara_for_date(d, ny_dates), for a date d
\* of year svYear; build_calendar has filled ny_dates for the years around it,
\* each with a date of its own year.  The run then moves to the next year.
ResolveSamvatsara ==
    /\ Len(svNames) < SamvatsaraRun
    /\ \E nyn \in 0..(YearLen - 1), dn \in 0..(YearLen - 1) :
        /\ (svSide = "before") => dn < nyn
        /\ (svSide = "onOrAfter") => dn >= nyn
        /\ LET d == [year |-> svYear, n |-> dn]
               ny_dates == [y \in (svYear - 1)..(svYear + 1) |-> [year |-> y, n |-> nyn]]
               name == samvatsara_for_date(d, ny_dates)
           IN /\ svLast' = [d |-> d, ny |-> ny_dates[svYear], name |-> name]
              /\ svNames' = Append(svNames, name)
    /\ svYear' = svYear + 1
    /\ UNCHANGED svSide
    /\ UNCHANGED notSamvVars

SamvNext == ResolveSamvatsara

\* ========================================================================
\* Time-of-day partition calculators
\* ========================================================================
\* A window is [s, e, den]: it runs from s/den to e/den ticks (part = L / 8.0
\* and L / 15.0 are not whole ticks).  fmt_interval renders a window as text;
\* a result is [na, wins]: na when the calculator returns "N/A".
Window(s, e, den) == [s |-> s, e |-> e, den |-> den]

NotAvailable == [na |-> TRUE, wins |-> <<>>]

Windows(ws) == [na |-> FALSE, wins |-> ws]

\* weekday tables, indexed by d.weekday() + 1 (0 = Monday)
r_map == <<1, 6, 4, 5, 3, 2, 7>>
y_map == <<3, 2, 1, 0, 6, 5, 4>>
g_map == <<4, 3, 2, 1, 0, 6, 5>>

DURMUHURTHAM_IDX == << <<8>>, <<2, 6>>, <<5>>, <<9>>, <<3, 8>>, <<0>>, <<13>> >>

GOWRI_SEQ == <<
    <<"Amirtha", "Rogam", "Laabam", "Dhanam", "Sugam", "Soram", "Visham", "Uthi">>,
    <<"Rogam", "Laabam", "Dhanam", "Sugam", "Soram", "Visham", "Uthi", "Amirtha">>,
    <<"Laabam", "Dhanam", "Sugam", "Soram", "Visham", "Uthi", "Amirtha", "Rogam">>,
    <<"Dhanam", "Sugam", "Soram", "Visham", "Uthi", "Amirtha", "Rogam", "Laabam">>,
    <<"Sugam", "Soram", "Visham", "Uthi", "Amirtha", "Rogam", "Laabam", "Dhanam">>,
    <<"Soram", "Visham", "Uthi", "Amirtha", "Rogam", "Laabam", "Dhanam", "Sugam">>,
    <<"Uthi", "Amirtha", "Rogam", "Laabam", "Dhanam", "Sugam", "Soram", "Visham">> >>

GOOD_GOWRI == {"Uthi", "Amirtha", "Laabam", "Dhanam", "Sugam"}

rahu_yama_gulika(wd, sunrise, sunset) ==
    LET L == sunset - sunrise
        seg(idx) == Window(8 * sunrise + L * idx,
                           IF idx >= 7 THEN 8 * sunset ELSE 8 * sunrise + L * (idx + 1),
                           8)
    IN IF L <= 0 THEN NotAvailable
       ELSE Windows(<<seg(r_map[wd + 1]), seg(y_map[wd + 1]), seg(g_map[wd + 1])>>)

\* durmuhurtham does not look at the sign of L
durmuhurtham(wd, sunrise, sunset) ==
    LET L == sunset - sunrise
        indices == DURMUHURTHAM_IDX[wd + 1]
        res == [k \in 1..Len(indices) |->
                    Window(15 * sunrise + L * indices[k],
                           15 * sunrise + L * (indices[k] + 1), 15)]
    IN IF Len(res) = 0 THEN NotAvailable ELSE Windows(res)

\* abhijit_muhurtham does not look at the sign of L
abhijit_muhurtham(sunrise, sunset) ==
    LET L == sunset - sunrise
    IN Windows(<<Window(15 * sunrise + L * 7, 15 * sunrise + L * 8, 15)>>)

\* sunrise.replace(hour=12, minute=0, second=0): noon of the sunrise's local date
local_noon(sunrise) == local_date(sunrise) * DayTicks + (DayTicks \div 2) - TzOffset

\* next((ab for ab in good_slots if ...), None): the first slot that starts
\* before noon (wantBefore) or at or after it, as a sequence of at most one
RECURSIVE first_slot(_, _, _, _)
first_slot(slots, noon8, wantBefore, k) ==
    IF k > Len(slots) THEN <<>>
    ELSE IF (slots[k].s < noon8) = wantBefore THEN <<slots[k]>>
    ELSE first_slot(slots, noon8, wantBefore, k + 1)

gowri_good_time(wd, sunrise, sunset) ==
    LET L == sunset - sunrise
        seq == GOWRI_SEQ[wd + 1]
        good == SelectSeq([i \in 1..8 |-> i - 1], LAMBDA i : seq[i + 1] \in GOOD_GOWRI)
        good_slots == [k \in 1..Len(good) |->
                          Window(8 * sunrise + L * good[k],
                                 8 * sunrise + L * (good[k] + 1), 8)]
        noon8 == 8 * local_noon(sunrise)
        morning == first_slot(good_slots, noon8, TRUE, 1)
        evening == first_slot(good_slots, noon8, FALSE, 1)
    IN IF L <= 0 THEN NotAvailable
       ELSE IF Len(good_slots) = 0 THEN NotAvailable
       ELSE IF morning # <<>> /\ evening # <<>> /\ morning # evening
            THEN Windows(morning \o evening)
       ELSE IF morning # <<>> THEN Windows(morning)
       ELSE Windows(<<good_slots[1]>>)

\* ========================================================================
\* Festival rule engine
\* ========================================================================
SOLAR_MONTH_NAMES_TA == <<"Chithirai", "Vaikasi", "Aani", "Aadi", "Aavani", "Purattasi",
                          "Aippasi", "Karthigai", "Margazhi", "Thai", "Maasi", "Panguni">>

\* RichFestival, with the dataclass's defaults
RichFestival(name) ==
    [name |-> name, lunar_month_idx |-> -1, tithi_idx |-> -1, paksha_idx |-> -1,
     solar_month_name |-> "", solar_day |-> -1, nakshatra_idx |-> -1,
     req_solar_month_for_nak |-> "", is_varalakshmi |-> FALSE]

LunarFestival(name, m, p, t) ==
    [RichFestival(name) EXCEPT !.lunar_month_idx = m, !.paksha_idx = p, !.tithi_idx = t]

SolarFestival(name, m, day) ==
    [RichFestival(name) EXCEPT !.solar_month_name = m, !.solar_day = day]

NakshatraFestival(name, n, m) ==
    [RichFestival(name) EXCEPT !.nakshatra_idx = n, !.req_solar_month_for_nak = m]

COMMON_FESTIVALS == <<
    LunarFestival("Deepavali", 6, 1, 14),
    LunarFestival("Vinayaka Chavithi", 5, 0, 4),
    LunarFestival("Vijaya Dasami", 6, 0, 10) >>

FESTIVALS_TA == COMMON_FESTIVALS \o <<
    SolarFestival("Thai Pongal", "Thai", 1),
    SolarFestival("Tamil Puthandu", "Chithirai", 1),
    NakshatraFestival("Karthigai Deepam", 3, "Karthigai"),
    NakshatraFestival("Thai Poosam", 8, "Thai"),
    NakshatraFestival("Panguni Uthiram", 12, "Panguni") >>

FESTIVALS_TE == COMMON_FESTIVALS \o <<
    LunarFestival("Ugadi", 0, 0, 1),
    LunarFestival("Srirama Navami", 0, 0, 9),
    LunarFestival("Vaikunta Ekadashi", 8, 0, 11),
    [RichFestival("Varalakshmi Vratam") EXCEPT !.is_varalakshmi = TRUE],
    SolarFestival("Bhogi", "Makaram", -1) >>

\* s_data and l_data as build_calendar passes them: s_info.get(d) is
\* [mname, day] and l_info.get(d) is [midx]; None is NoSolar, NoLunar
NoSolar == [mname |-> "", day |-> 0]
NoLunar == [midx |-> -1]

\* the if / elif chain of check_rich_festivals for one rule
rule_matched(r, wd, s_data, l_data, t_now, n_now) ==
    LET s_mname == s_data.mname
        s_day == s_data.day
        l_midx == l_data.midx
        curr_paksha_idx == IF t_now <= 15 THEN 0 ELSE 1
        curr_tithi_norm == IF t_now <= 15 THEN t_now ELSE t_now - 15
    IN IF r.solar_month_name # "" /\ s_mname = r.solar_month_name /\ s_day = r.solar_day
       THEN TRUE
       ELSE IF r.lunar_month_idx # -1
       THEN l_midx = r.lunar_month_idx /\ curr_paksha_idx = r.paksha_idx
              /\ curr_tithi_norm = r.tithi_idx
       ELSE IF r.nakshatra_idx # -1
       THEN n_now = r.nakshatra_idx /\ s_mname = r.req_solar_month_for_nak
       ELSE IF r.is_varalakshmi
       THEN /\ l_midx = 4 /\ curr_paksha_idx = 0
            /\ wd = 4
            /\ 0 <= 15 - curr_tithi_norm /\ 15 - curr_tithi_norm < 7
       ELSE FALSE

\* the rule list of a location's style
festival_rules(style) == IF style = "TELUGU" THEN FESTIVALS_TE ELSE FESTIVALS_TA

\* check_rich_festivals: the names of the rules that matched, in list order
check_rich_festivals(style, wd, s_data, l_data, t_now, n_now) ==
    LET rules == festival_rules(style)
        hit == SelectSeq(rules, LAMBDA r : rule_matched(r, wd, s_data, l_data, t_now, n_now))
    IN [k \in 1..Len(hit) |-> hit[k].name]

\* ------------------------------------------------------------------------
\* The calculators and the rule engine applied to one day's attributes
\* ------------------------------------------------------------------------
NumNakshatra == 27

\* nakshatras at sunrise: those some rule names, and the ends of the range
NakSamples == {1, 3, 8, 12, NumNakshatra}

\* the solar day ordinals tried
SolarDays == {1, 2}

RulesIdle ==
    /\ ruOp = "none"
    /\ ruIn = <<>>
    /\ ruOut = <<>>

RulesInit == RulesIdle

\* daily_panchangam: rahu_yama_gulika, gowri_good_time, durmuhurtham and
\* abhijit_muhurtham on the day's sunrise and sunset
PartitionCalculators ==
    /\ ruOp = "none"
    /\ \E wd \in 0..6, sr \in TicksOfDate(1), ss \in TicksOfDate(1) :
        /\ ruIn' = [wd |-> wd, sr |-> sr, ss |-> ss]
        /\ ruOut' = [rahu_yama_gulika |-> rahu_yama_gulika(wd, sr, ss),
                     gowri_good_time |-> gowri_good_time(wd, sr, ss),
                     durmuhurtham |-> durmuhurtham(wd, sr, ss),
                     abhijit_muhurtham |-> abhijit_muhurtham(sr, ss)]
    /\ ruOp' = "calculators"
    /\ UNCHANGED notRulesVars

\* daily_panchangam: festivals = check_rich_festivals(loc, d, s_data, l_data,
\* t_now, n_now); a TAMIL location has a solar map only, a TELUGU one a lunar
\* map only
CheckRichFestivals ==
    /\ ruOp = "none"
    /\ \E style \in {"TAMIL", "TELUGU"}, wd \in 0..6,
          t_now \in 1..NumTithi, n_now \in NakSamples,
          mi \in 1..12, day \in SolarDays :
        LET s_data == IF style = "TAMIL"
                      THEN [mname |-> SOLAR_MONTH_NAMES_TA[mi], day |-> day]
                      ELSE NoSolar
            l_data == IF style = "TELUGU" THEN [midx |-> mi - 1] ELSE NoLunar
        IN /\ (style = "TELUGU") => day = 1
           /\ ruIn' = [style |-> style, wd |-> wd, s_data |-> s_data, l_data |-> l_data,
                       t_now |-> t_now, n_now |-> n_now]
           /\ ruOut' = [hits |-> check_rich_festivals(style, wd, s_data, l_data, t_now, n_now)]
    /\ ruOp' = "festivals"
    /\ UNCHANGED notRulesVars

\* number of days of the calendar's horizon (DAYS_AHEAD)
NumDays == 3

\* ========================================================================
\* Timed vratams
\* ========================================================================
NoSpan == [found |-> FALSE, start |-> 0, end |-> 0]

\* get_tithi_span: the table entries that bound the occurrence of target_tithi
\* around search_center; positions are 0-based as in the source
get_tithi_span(target_tithi, search_center, chs, vals) ==
    LET idx0 == bisect_right(chs, search_center) - 1
    IN IF idx0 < 0 \/ idx0 >= Len(vals) THEN NoSpan
       ELSE LET idx == IF vals[idx0 + 1] # target_tithi
                       THEN IF idx0 + 1 < Len(vals) /\ vals[idx0 + 2] = target_tithi
                            THEN idx0 + 1
                            ELSE IF idx0 - 1 >= 0 /\ vals[idx0] = target_tithi
                            THEN idx0 - 1
                            ELSE None
                       ELSE idx0
            IN IF idx = None THEN NoSpan
               ELSE [found |-> TRUE,
                     start |-> chs[idx + 1],
                     end |-> IF idx + 1 < Len(chs) THEN chs[idx + 2]
                             ELSE search_center + DayTicks]

\* timedelta(minutes=45), in ticks (StepTicks ticks are two hours)
PradoshaOffset == (3 * StepTicks) \div 8

\* sunset.replace(hour=21, minute=0): 21:00 of the sunset's local date
local_night(sunset) == local_date(sunset) * DayTicks + (21 * StepTicks) \div 2 - TzOffset

VratamEvent(name, span) == [name |-> name, start |-> span.start, end |-> span.end]

\* one check of check_special_vratams_timed: the events it appends
vratam_check(sampled, targets, names, center, chs, vals) ==
    IF sampled \in targets
    THEN LET span == get_tithi_span(sampled, center, chs, vals)
         IN IF span.found THEN <<VratamEvent(names[sampled], span)>> ELSE <<>>
    ELSE <<>>

check_special_vratams_timed(sunrise, sunset, chs, vals) ==
    LET t_sunrise == value_at(sunrise, chs, vals).v
        check_time == sunset - PradoshaOffset
        t_pradosham == value_at(check_time, chs, vals).v
        check_time_night == local_night(sunset)
        t_night == value_at(check_time_night, chs, vals).v
    IN vratam_check(t_sunrise, {11, 26},
                    [t \in {11, 26} |-> IF t = 11 THEN "Ekadashi (Shukla)"
                                        ELSE "Ekadashi (Krishna)"],
                    sunrise, chs, vals)
       \o vratam_check(t_sunrise, {6}, [t \in {6} |-> "Sashti (Shukla)"],
                       sunrise, chs, vals)
       \o vratam_check(t_pradosham, {13, 28},
                       [t \in {13, 28} |-> IF t = 13 THEN "Pradosham (Shukla)"
                                           ELSE "Pradosham (Krishna)"],
                       check_time, chs, vals)
       \o vratam_check(t_night, {19}, [t \in {19} |-> "Sankatahara Chathurthi"],
                       check_time_night, chs, vals)

\* ========================================================================
\* The festival rules over the consecutive days of one lunar month
\* ========================================================================
\* the most days evaluated
WalkDays == 30

\* the lunar months some rule of FESTIVALS_TE names
WalkMonths == {0, 4, 5, 6, 8}

WalkIdle ==
    /\ wkPhase = "idle"
    /\ wkMonth = -1
    /\ wkDay = 0
    /\ wkWd = 0
    /\ wkTithi = 0
    /\ wkAdv = 1
    /\ wkLog = <<>>

\* the first sunrise of the month: in tithi 1, or in tithi 2 when tithi 1
\* holds no sunrise
WalkInit ==
    /\ wkPhase = "month"
    /\ wkMonth \in WalkMonths
    /\ wkDay = 0
    /\ wkWd \in 0..6
    /\ wkTithi \in {1, 2}
    /\ wkAdv = 1
    /\ wkLog = <<>>

\* daily_panchangam on today, for a TELUGU location: the hits are logged
walk_hits ==
    LET hits == check_rich_festivals("TELUGU", wkWd, NoSolar, [midx |-> wkMonth],
                                     wkTithi, 1)
    IN [k \in 1..Len(hits) |->
            [day |-> wkDay, wd |-> wkWd, t_now |-> wkTithi, name |-> hits[k]]]

\* A tithi lasts between 19 and 27 hours: the sunrise tithi advances by 0, 1
\* or 2 from one day to the next, and an advance of 0 or 2 is followed by 1.
Advances == IF wkAdv = 1 THEN {0, 1, 2} ELSE {1}

\* one iteration of the day loop, the next sunrise being in the same month
WalkDay ==
    /\ wkPhase = "month"
    /\ wkDay < WalkDays
    /\ \E adv \in Advances :
        /\ wkTithi + adv <= NumTithi
        /\ wkTithi' = wkTithi + adv
        /\ wkAdv' = adv
    /\ wkLog' = wkLog \o walk_hits
    /\ wkDay' = wkDay + 1
    /\ wkWd' = (wkWd + 1) % 7
    /\ UNCHANGED <<wkPhase, wkMonth>>
    /\ UNCHANGED notWalkVars

\* one iteration of the day loop, the next sunrise being in the next month
WalkLastDay ==
    /\ wkPhase = "month"
    /\ \E adv \in Advances : wkTithi + adv > NumTithi
    /\ wkLog' = wkLog \o walk_hits
    /\ wkDay' = wkDay + 1
    /\ wkPhase' = "over"
    /\ UNCHANGED <<wkMonth, wkWd, wkTithi, wkAdv>>
    /\ UNCHANGED notWalkVars

WalkNext ==
    \/ WalkDay
    \/ WalkLastDay

\* ------------------------------------------------------------------------
\* check_special_vratams_timed applied to one day and a short table
\* ------------------------------------------------------------------------
\* a table of two entries, the first at c0: a reference instant of the day
\* lies before the table, in its first entry, or in its last
VratamTable(c0, v0) ==
    [changes |-> <<c0, c0 + DayTicks - 3>>, values |-> <<v0, CycleTithi(v0, 1)>>]

\* the first entry lies before the day's first instant, or in its morning
VratamTableStarts == {local_midnight(1) - DayTicks + 8, local_midnight(1) + DayTicks \div 3}

\* the target tithis, the tithi before each and the tithi after
VratamTithis == {5, 6, 7, 10, 11, 12, 13, 14, 18, 19, 20, 25, 26, 27, 28, 29}

\* daily_panchangam: vratam_events = check_special_vratams_timed(d, sr, ss,
\* t_ch, t_v)
CheckSpecialVratams ==
    /\ ruOp = "none"
    /\ \E sr \in TicksOfDate(1), ss \in TicksOfDate(1),
          c0 \in VratamTableStarts, v0 \in VratamTithis :
        LET tab == VratamTable(c0, v0)
        IN /\ ruIn' = [sr |-> sr, ss |-> ss, changes |-> tab.changes, values |-> tab.values]
           /\ ruOut' = [vratam_events |->
                           check_special_vratams_timed(sr, ss, tab.changes, tab.values)]
    /\ ruOp' = "vratams"
    /\ UNCHANGED notRulesVars

RulesNext ==
    \/ PartitionCalculators
    \/ CheckRichFestivals
    \/ CheckSpecialVratams

\* ========================================================================
\* month_day_numbers_solar
\* ========================================================================
\* the number of days after start_d the map covers (end_d - start_d)
SolarRange == 4

\* back_days and the 15 days looked ahead, on the scale of a solar month of
\* two or three days (45 and 15 days against a month of 29 to 32)
BackDays == 4

AheadDays == 1

so_start_d == BackDays + 1

so_end_d == so_start_d + SolarRange

\* t0 and t1: midnight UTC of start_d - back_days and of end_d + 15 days
so_t0 == (so_start_d - BackDays) * DayTicks

so_t1 == (so_end_d + AheadDays) * DayTicks

\* the local dates an ingress of [t0, t1] can start a month on
SolarDates == (so_start_d - BackDays - 1)..(so_end_d + AheadDays + 2)

\* the sun enters a sign every two days and a little, or three days less a
\* little: the hour of the ingress moves from one month to the next
MonthTicks == {2 * DayTicks + 1, 3 * DayTicks - 1}

\* the first ingress of the window: within a tick of the sunset of one of
\* the window's first two dates
FirstIngresses ==
    {local_midnight(x) + (3 * DayTicks) \div 4 + off :
        x \in {so_start_d - BackDays, so_start_d - BackDays + 1}, off \in {-1, 0, 1}}

\* what sunrise_sunset_for_local_date answers for a date: both events, no
\* sunrise, or no sunset
SunAnswers == {"both", "noSunrise", "noSunset"}

sun_answer(x, kind) ==
    [sr |-> IF kind = "noSunrise" THEN None ELSE local_midnight(x) + DayTicks \div 4,
     ss |-> IF kind = "noSunset" THEN None ELSE local_midnight(x) + (3 * DayTicks) \div 4]

\* ingress_times and rasi_values zipped, each with the sunrise and sunset of
\* its local date; the rasi index advances cyclically
found_ingresses(first, step, r0, kinds) ==
    LET n == (so_t1 - first) \div step + 1
    IN [k \in 1..n |->
            LET t == first + (k - 1) * step
                sun == sun_answer(local_date(t), kinds[k])
            IN [t |-> t, rasi |-> (r0 + k) % 12, sr |-> sun.sr, ss |-> sun.ss]]

\* solar_rasi_idx at an instant, for the fallback of the map
rasi_at(ings, r0, t) == (r0 + Cardinality({k \in DOMAIN ings : ings[k].t <= t})) % 12

\* if ss and dt_local < ss: d_civil, else: d_civil + 1 day
month_start_date(t_ing, sr, ss) ==
    IF ss # None /\ t_ing < ss THEN local_date(t_ing) ELSE local_date(t_ing) + 1

\* the loop over the ingresses: month_starts[...] = r_val
RECURSIVE month_starts_loop(_, _, _)
month_starts_loop(ings, k, month_starts) ==
    IF k > Len(ings) THEN month_starts
    ELSE month_starts_loop(ings, k + 1,
            [month_starts EXCEPT ![month_start_date(ings[k].t, ings[k].sr, ings[k].ss)]
                                    = ings[k].rasi])

\* the loop over sorted_starts: the last month start on or before start_d
last_start(month_starts, sd) ==
    LET upto == {x \in DOMAIN month_starts : month_starts[x] # None /\ x <= sd}
    IN IF upto = {} THEN None ELSE CHOOSE x \in upto : \A y \in upto : y <= x

day_count_carried(day_count) == day_count

\* day_count = 1 on a month start
day_count_reset(day_count) == 1

\* the while loop that fills res
RECURSIVE solar_day_loop(_, _, _, _, _, _)
solar_day_loop(month_starts, x, ed, current_mi, day_count, res) ==
    IF x > ed THEN res
    ELSE LET start == month_starts[x] # None
             mi == IF start THEN month_starts[x] ELSE current_mi
             dc == IF start THEN day_count_reset(day_count) ELSE day_count
         IN solar_day_loop(month_starts, x + 1, ed, mi, dc + 1,
                           [res EXCEPT ![x] = [midx |-> mi, day |-> dc]])

NoSolarDay == [midx |-> None, day |-> 0]

\* month_day_numbers_solar from month_starts on; fallback_mi is
\* solar_rasi_idx at 06:00 UTC of start_d
month_day_numbers(month_starts, sd, ed, fallback_mi) ==
    LET last == last_start(month_starts, sd)
        found_start == last # None
        current_mi == IF found_start THEN month_starts[last] ELSE fallback_mi
        last_start_date == IF found_start THEN last ELSE sd
    IN solar_day_loop(month_starts, sd, ed, current_mi, (sd - last_start_date) + 1,
                      [x \in sd..ed |-> NoSolarDay])

SolarIdle ==
    /\ soPhase = "idle"
    /\ soIn = <<>>
    /\ soStarts = <<>>
    /\ soRes = <<>>

\* precompute_discrete(ts, t0, t1, f_rasi) has answered
SolarInit ==
    /\ soPhase = "ingresses"
    /\ \E first \in FirstIngresses, step \in MonthTicks, r0 \in {8, 10} :
        \E kinds \in [1..((so_t1 - first) \div step + 1) -> SunAnswers] :
            soIn = [r0 |-> r0, ings |-> found_ingresses(first, step, r0, kinds)]
    /\ soStarts = <<>>
    /\ soRes = <<>>

\* the loop over zip(ingress_times, rasi_values)
SolarMonthStarts ==
    /\ soPhase = "ingresses"
    /\ soStarts' = month_starts_loop(soIn.ings, 1, [x \in SolarDates |-> None])
    /\ soPhase' = "starts"
    /\ UNCHANGED <<soIn, soRes>>
    /\ UNCHANGED notSolarVars

\* the rest of month_day_numbers_solar: res
SolarDayNumbers ==
    /\ soPhase = "starts"
    /\ soRes' = month_day_numbers(soStarts, so_start_d, so_end_d,
                                  rasi_at(soIn.ings, soIn.r0, so_start_d * DayTicks + DayTicks \div 4))
    /\ soPhase' = "done"
    /\ UNCHANGED <<soIn, soStarts>>
    /\ UNCHANGED notSolarVars

SolarNext ==
    \/ SolarMonthStarts
    \/ SolarDayNumbers

\* ========================================================================
\* get_lunar_month_map
\* ========================================================================
\* the number of days after start_d the map covers (end_d - start_d)
LunarRange == 3

\* back_days, and the 30 days looked ahead
LunarBackDays == 60

LunarAheadDays == 30

lu_start_d == LunarBackDays + 1

lu_end_d == lu_start_d + LunarRange

LunarDays == lu_start_d..lu_end_d

lu_t0 == (lu_start_d - LunarBackDays) * DayTicks

lu_t1 == (lu_end_d + LunarAheadDays) * DayTicks

\* the sunrise sunrise_sunset_for_local_date answers for a date that has one
lu_sunrise(x) == local_midnight(x) + DayTicks \div 4

\* A tithi table as precompute_discrete returns it over [t0, t1]: tithi 1
\* begins at new_moon_end, and every tithi lasts dwell ticks.
lunar_tithi_table(new_moon_end, dwell) ==
    LET back == (new_moon_end - lu_t0) \div dwell
        n == back + (lu_t1 - new_moon_end) \div dwell + 1
    IN [changes |-> [k \in 1..n |-> new_moon_end + (k - 1 - back) * dwell],
        values |-> [k \in 1..n |-> ((k - 1 - back) % NumTithi) + 1]]

\* a tithi is a little shorter or a little longer than a day
LunarDwells == {DayTicks - 1, DayTicks + 1}

\* tithi 1 begins within a tick of the sunrise of a date of the range
NewMoonEnds == {lu_sunrise(x) + off : x \in LunarDays, off \in {-1, 0, 1}}

\* solar_rasi_idx: the sun changes sign every 30 days and a little; r0 is
\* the sign at tick 0 and shift how far into it tick 0 lies
SolarMonthTicks == 30 * DayTicks + DayTicks \div 2

solar_rasi_idx(t, r0, shift) == (r0 + (t + shift) \div SolarMonthTicks) % 12

RasiShifts == {0, SolarMonthTicks \div 2, (3 * SolarMonthTicks) \div 4}

\* the loop over enumerate(changes): an entry whose value is 1 gives
\* (t, (solar rasi at t + 1) % 12); the list is then sorted by instant, which
\* the table's order already is
RECURSIVE month_transitions_loop(_, _, _, _, _)
month_transitions_loop(chs, vals, i, rasi_of, acc) ==
    IF i > Len(chs) THEN acc
    ELSE IF vals[i] = 1
    THEN month_transitions_loop(chs, vals, i + 1, rasi_of,
                                Append(acc, [t |-> chs[i], midx |-> (rasi_of[i] + 1) % 12]))
    ELSE month_transitions_loop(chs, vals, i + 1, rasi_of, acc)

RECURSIVE best_idx_loop_inclusive(_, _, _, _)
best_idx_loop_inclusive(trans, sr, i, best_idx) ==
    IF i > Len(trans) THEN best_idx
    ELSE IF trans[i].t <= sr THEN best_idx_loop_inclusive(trans, sr, i + 1, i)
    ELSE best_idx

\* for i, (t_trans, m_idx) in enumerate(month_transitions): if t_trans < sr:
\* best_idx = i, else: break; positions are 1-based here and 0 is "none"
RECURSIVE best_idx_loop(_, _, _, _)
best_idx_loop(trans, sr, i, best_idx) ==
    IF i > Len(trans) THEN best_idx
    ELSE IF trans[i].t < sr THEN best_idx_loop(trans, sr, i + 1, i)
    ELSE best_idx

\* the while loop that fills res; cur_mi carries over a date without sunrise
RECURSIVE lunar_day_loop(_, _, _, _, _)
lunar_day_loop(trans, sunrises, x, cur_mi, res) ==
    IF x > lu_end_d THEN res
    ELSE LET sr == sunrises[x]
             best_idx == IF sr # None THEN best_idx_loop(trans, sr, 1, 0) ELSE 0
             mi == IF best_idx # 0 THEN trans[best_idx].midx ELSE cur_mi
         IN lunar_day_loop(trans, sunrises, x + 1, mi, [res EXCEPT ![x] = mi])

\* sun_sidereal_lon_deg in whole degrees, on the scale of solar_rasi_idx:
\* thirty degrees to a sign
lu_sun_lon_deg(t, r0, shift) ==
    (((r0 * SolarMonthTicks + t + shift) * 30) \div SolarMonthTicks) % 360

\* the 41 days from March 10 to April 20 that ugadi_civil_date searches,
\* laid around the first day of the range
UgadiWindowDays == 41

ug_t_start == (lu_start_d - 10) * DayTicks

ug_t_end == ug_t_start + UgadiWindowDays * DayTicks

\* sunrise_sunset_for_local_date: the dates of the range answer as drawn,
\* any other date has its sunrise
lu_sunrise_of(sunrises, x) == IF x \in DOMAIN sunrises THEN sunrises[x] ELSE lu_sunrise(x)

\* tithi_idx at an instant: the value the table's last entry at or before
\* it took (the table reaches far behind every instant asked for)
lu_tithi_idx(table, t) == value_at(t, table.changes, table.values).v

\* the new moons find_discrete(moon_phases) answers in [t_start, t_end]: the
\* instants at which tithi 1 begins, each with the sun's longitude, its local
\* date, and tithi_idx at the sunrise of that date and of the two after it
\* (0 where the date has no sunrise: `if sr` skips it)
new_moon_events(table, r0, shift, sunrises) ==
    LET idx == SelectSeq([i \in 1..Len(table.changes) |-> i],
                         LAMBDA i : /\ table.values[i] = 1
                                    /\ ug_t_start <= table.changes[i]
                                    /\ table.changes[i] <= ug_t_end)
    IN [k \in 1..Len(idx) |->
            LET t == table.changes[idx[k]]
                day == local_date(t)
            IN [phase |-> 0, lon |-> lu_sun_lon_deg(t, r0, shift), day |-> day,
                tids |-> [off \in 1..UgadiScanDays |->
                            LET sr == lu_sunrise_of(sunrises, day + off - 1)
                            IN IF sr = None THEN 0
                               ELSE lu_tithi_idx(table, sr)],
                nosr |-> None]]

LunarIdle ==
    /\ luPhase = "idle"
    /\ luIn = <<>>
    /\ luTrans = <<>>
    /\ luRes = <<>>
    /\ luNy = NoResult

\* build_calendar for a TELUGU location, before the new-year dates are
\* computed; luIn holds what the ephemeris will answer
LunarInit ==
    /\ luPhase = "newyear"
    /\ \E nme \in NewMoonEnds, dwell \in LunarDwells, r0 \in {8, 9, 10, 11},
          shift \in RasiShifts, risen \in [LunarDays -> BOOLEAN] :
        luIn = [table |-> lunar_tithi_table(nme, dwell), r0 |-> r0, shift |-> shift,
                sunrises |-> [x \in LunarDays |-> IF risen[x] THEN lu_sunrise(x) ELSE None]]
    /\ luTrans = <<>>
    /\ luRes = <<>>
    /\ luNy = NoResult

\* ny_dates[y] = ugadi_civil_date(...)
LunarNewYear ==
    /\ luPhase = "newyear"
    /\ luNy' = ugadi_civil_date(new_moon_events(luIn.table, luIn.r0, luIn.shift, luIn.sunrises))
    /\ luPhase' = "tithis"
    /\ UNCHANGED <<luIn, luTrans, luRes>>
    /\ UNCHANGED notLunarVars

\* step 1: month_transitions
LunarMonthTransitions ==
    /\ luPhase = "tithis"
    /\ luTrans' = month_transitions_loop(
                      luIn.table.changes, luIn.table.values, 1,
                      [i \in DOMAIN luIn.table.changes |->
                            solar_rasi_idx(luIn.table.changes[i], luIn.r0, luIn.shift)],
                      <<>>)
    /\ luPhase' = "transitions"
    /\ UNCHANGED <<luIn, luRes, luNy>>
    /\ UNCHANGED notLunarVars

\* step 2: res, with cur_mi = 0 to begin with
LunarDayMap ==
    /\ luPhase = "transitions"
    /\ luRes' = lunar_day_loop(luTrans, luIn.sunrises, lu_start_d, 0,
                               [x \in LunarDays |-> None])
    /\ luPhase' = "done"
    /\ UNCHANGED <<luIn, luTrans, luNy>>
    /\ UNCHANGED notLunarVars

LunarNext ==
    \/ LunarNewYear
    \/ LunarMonthTransitions
    \/ LunarDayMap

\* ========================================================================
\* build_calendar: the day loop and the manual events
\* ========================================================================
\* start_d is today's local date; the loop covers start_d .. end_d - 1
start_d == 1

end_d == start_d + NumDays

Dates == start_d..end_d

\* d.weekday() of a date, from the weekday of start_d
weekday(d, wd0) == (wd0 + (d - start_d)) % 7

\* the weekdays start_d is tried on: Thursday and Friday
StartWeekdays == {3, 4}

\* --- sun events ---------------------------------------------------------
\* What find_discrete reports for one local date: a sunrise (st = 1) in the
\* morning and a sunset (st = 0) in the evening; nothing (polar night or
\* day); one of the two only; a sunset just after midnight before the
\* sunrise; and the same followed by a second sunset just before midnight.
SunPatterns == {"RS", "none", "R", "S", "SR", "SRS"}

day_sun_events(d, pat) ==
    LET rise == [t |-> local_midnight(d) + DayTicks \div 4, st |-> 1]
        set == [t |-> local_midnight(d) + (3 * DayTicks) \div 4, st |-> 0]
        early == [t |-> local_midnight(d) + 2, st |-> 0]
        late == [t |-> local_midnight(d) + DayTicks - 2, st |-> 0]
    IN CASE pat = "RS" -> <<rise, set>>
         [] pat = "none" -> <<>>
         [] pat = "R" -> <<rise>>
         [] pat = "S" -> <<set>>
         [] pat = "SR" -> <<early, rise>>
         [] pat = "SRS" -> <<early, rise, late>>

RECURSIVE sun_events(_, _)
sun_events(pats, d) ==
    IF d > end_d THEN <<>> ELSE day_sun_events(d, pats[d]) \o sun_events(pats, d + 1)

\* find_discrete reports changes of state: sunrises and sunsets alternate
Alternates(ev) == \A k \in 1..(Len(ev) - 1) : ev[k].st # ev[k + 1].st

\* the loop of sun_events_range: the last sunrise and the last sunset of each
\* local date; a date without one maps to None (dict.get)
RECURSIVE sun_events_loop(_, _, _, _)
sun_events_loop(ev, k, sr_map, ss_map) ==
    IF k > Len(ev) THEN [sunr |-> sr_map, suns |-> ss_map]
    ELSE LET dt == ev[k].t
         IN IF ev[k].st = 1
            THEN sun_events_loop(ev, k + 1, [sr_map EXCEPT ![local_date(dt)] = dt], ss_map)
            ELSE sun_events_loop(ev, k + 1, sr_map, [ss_map EXCEPT ![local_date(dt)] = dt])

sun_events_range(ev) ==
    sun_events_loop(ev, 1, [x \in Dates |-> None], [x \in Dates |-> None])

\* --- the tables and maps build_calendar works from ------------------------
\* a transition table as precompute_discrete returns it for an index that
\* becomes v0 at tick 0 and advances cyclically every dwell ticks
StepTable(dwell, v0, cycle) ==
    LET n == ((end_d + 2) * DayTicks) \div dwell + 1
    IN [changes |-> [k \in 1..n |-> (k - 1) * dwell],
        values |-> [k \in 1..n |-> ((v0 + k - 2) % cycle) + 1]]

\* a tithi lasts a little less than a civil day, or more: the longer one
\* holds the sunrises of two consecutive dates
TithiDwells == {DayTicks - 3, DayTicks + 6}

\* the tithi of the first table entry: the eve of Sashti, of either Ekadashi
\* and of Sankatahara Chathurthi
TithiStarts == {4, 10, 17, 25}

NakDwell == DayTicks + 1

NakStarts == {2, 7}

\* month_day_numbers_solar's map when no month starts inside the range:
\* <<month index, ordinal of start_d>>
SolarStarts == {<<9, 1>>, <<8, 20>>}

solar_info(start) ==
    [x \in Dates |-> [mname |-> SOLAR_MONTH_NAMES_TA[start[1] + 1],
                      day |-> start[2] + (x - start_d)]]

\* get_lunar_month_map's map when no month starts inside the range
LunarStarts == {4, 8}

lunar_info(midx) == [x \in Dates |-> [midx |-> midx]]

\* --- events -------------------------------------------------------------
\* uid_daily, uid_fest, uid_vrat and uid_manual: kind, date or start, suffix.
\* The source formats a vratam's start to the local minute and strips the
\* blanks of a name: local_minute is the local clock reading of an instant,
\* and no two rule names differ in blanks only.
local_minute(t) == t + TzOffset

Uid(kind, at, suffix) == [kind |-> kind, at |-> at, suffix |-> suffix]

Event(uid, categories, name, begin, end) ==
    [uid |-> uid, categories |-> categories, name |-> name, begin |-> begin, end |-> end]

\* daily_panchangam: the sunrise tithi and nakshatra, the festivals and the
\* timed vratams of the day
daily_panchangam(style, wd, s_data, l_data, sr, ss, t_tab, n_tab) ==
    LET t_now == value_at(sr, t_tab.changes, t_tab.values).v
        n_now == value_at(sr, n_tab.changes, n_tab.values).v
    IN [t_now |-> t_now, n_now |-> n_now,
        festivals |-> check_rich_festivals(style, wd, s_data, l_data, t_now, n_now),
        vratam_events |-> check_special_vratams_timed(sr, ss, t_tab.changes, t_tab.values)]

\* the events one iteration of the loop offers, in the order it adds them
offered_events(x, out) ==
    <<Event(Uid("panchangam", x, ""), "PANCHANGAM", "", x, x)>>
    \o [k \in 1..Len(out.festivals) |->
            Event(Uid("festival", x, out.festivals[k]), "FESTIVAL", out.festivals[k], x, x)]
    \o [k \in 1..Len(out.vratam_events) |->
            LET v == out.vratam_events[k]
            IN Event(Uid("vratam", local_minute(v.start), v.name), "VRATAM", v.name,
                     v.start, v.end)]

RECURSIVE add_events_unchecked(_, _, _, _)
add_events_unchecked(evs, k, events, seen) ==
    IF k > Len(evs) THEN [events |-> events, seen_uids |-> seen]
    ELSE add_events_unchecked(evs, k + 1, Append(events, evs[k]), seen \cup {evs[k].uid})

\* if uid not in seen_uids: cal.events.add(e); seen_uids.add(uid)
RECURSIVE add_events(_, _, _, _)
add_events(evs, k, events, seen) ==
    IF k > Len(evs) THEN [events |-> events, seen_uids |-> seen]
    ELSE IF evs[k].uid \in seen THEN add_events(evs, k + 1, events, seen)
    ELSE add_events(evs, k + 1, Append(events, evs[k]), seen \cup {evs[k].uid})

\* --- manual events --------------------------------------------------------
ManualItem(hasName, hasDate, dateOk) ==
    [hasName |-> hasName, name |-> IF hasName THEN "Family Day" ELSE "",
     hasDate |-> hasDate, dateOk |-> dateOk, date |-> IF hasDate THEN start_d + 1 ELSE None]

GoodItem == ManualItem(TRUE, TRUE, TRUE)

Nameless == ManualItem(FALSE, TRUE, TRUE)

Dateless == ManualItem(TRUE, FALSE, TRUE)

BadDate == ManualItem(TRUE, TRUE, FALSE)

ManualFile(exists, parses, data) == [exists |-> exists, parses |-> parses, data |-> data]

\* the file is absent, is not JSON, or is a list of items
ManualFiles ==
    {ManualFile(FALSE, FALSE, <<>>), ManualFile(TRUE, FALSE, <<>>)}
    \cup {ManualFile(TRUE, TRUE, data) :
            data \in {<<GoodItem>>, <<GoodItem, GoodItem>>, <<Nameless, GoodItem>>,
                      <<GoodItem, Nameless>>, <<Dateless>>, <<BadDate, GoodItem>>}}

ManualResult(events, seen, raised) ==
    [events |-> events, seen_uids |-> seen, raised |-> raised]

\* the for loop over the items; item['name'] of a nameless item and e.begin
\* of an unparsable date raise, which ends the loop there
RECURSIVE manual_loop(_, _, _, _)
manual_loop(data, k, events, seen) ==
    IF k > Len(data) THEN ManualResult(events, seen, FALSE)
    ELSE LET item == data[k]
             uid_manual == Uid("manual", item.date, item.name)
         IN IF ~item.hasName THEN ManualResult(events, seen, TRUE)
            ELSE IF uid_manual \in seen THEN manual_loop(data, k + 1, events, seen)
            ELSE IF item.hasDate /\ ~item.dateOk THEN ManualResult(events, seen, TRUE)
            ELSE LET e == IF item.hasDate
                          THEN Event(uid_manual, "", item.name, item.date, item.date)
                          ELSE Event(Uid("generated", k, ""), "", item.name, None, None)
                 IN manual_loop(data, k + 1, Append(events, e), seen \cup {uid_manual})

\* the body of `if os.path.exists(MANUAL_FILE): try: ...`; json.loads of a
\* file that is not JSON raises
manual_try(file, events, seen) ==
    IF ~file.exists THEN ManualResult(events, seen, FALSE)
    ELSE IF ~file.parses THEN ManualResult(events, seen, TRUE)
    ELSE manual_loop(file.data, 1, events, seen)

except_reraise(raised) == IF raised THEN "aborted" ELSE "done"

\* `except: pass`, then `return cal`: whatever was raised, the run goes on
except_pass(raised) == "done"

\* --- the state machine ----------------------------------------------------
DayIdle ==
    /\ bcPhase = "idle"
    /\ bcManual = <<>>
    /\ bcLoc = <<>>
    /\ sunr = <<>>
    /\ suns = <<>>
    /\ bcTables = <<>>
    /\ bcD = 0
    /\ cal = <<>>
    /\ seen_uids = {}

\* build_calendar up to the loop: the location, the sun events of the range,
\* the month maps and the tables it is called with
DayInit ==
    /\ bcPhase = "loop"
    /\ \E wd0 \in StartWeekdays :
        \/ \E ms \in SolarStarts :
              bcLoc = [style |-> "TAMIL", wd0 |-> wd0,
                       s_info |-> solar_info(ms), l_info |-> [x \in Dates |-> NoLunar]]
        \/ \E ml \in LunarStarts :
              bcLoc = [style |-> "TELUGU", wd0 |-> wd0,
                       s_info |-> [x \in Dates |-> NoSolar], l_info |-> lunar_info(ml)]
    /\ \E pats \in [Dates -> SunPatterns] :
        /\ Alternates(sun_events(pats, start_d))
        /\ sunr = sun_events_range(sun_events(pats, start_d)).sunr
        /\ suns = sun_events_range(sun_events(pats, start_d)).suns
    /\ \E dwell \in TithiDwells, tv0 \in TithiStarts, nv0 \in NakStarts :
        bcTables = [tithi |-> StepTable(dwell, tv0, NumTithi),
                    nak |-> StepTable(NakDwell, nv0, NumNakshatra)]
    /\ bcD = start_d
    /\ bcManual = <<>>
    /\ cal = <<>>
    /\ seen_uids = {}

\* one iteration of `while d < end_d`
DayLoop ==
    /\ bcPhase = "loop"
    /\ bcD < end_d
    /\ LET sr == sunr[bcD]
           ss == suns[bcD]
           nsr == sunr[bcD + 1]
       IN IF sr # None /\ ss # None /\ nsr # None
          THEN LET out == daily_panchangam(bcLoc.style, weekday(bcD, bcLoc.wd0),
                                           bcLoc.s_info[bcD], bcLoc.l_info[bcD],
                                           sr, ss, bcTables.tithi, bcTables.nak)
                   added == add_events(offered_events(bcD, out), 1, cal, seen_uids)
               IN /\ cal' = added.events
                  /\ seen_uids' = added.seen_uids
          ELSE UNCHANGED <<cal, seen_uids>>
    /\ bcD' = bcD + 1
    /\ UNCHANGED <<bcPhase, bcLoc, sunr, suns, bcTables, bcManual>>
    /\ UNCHANGED notDayVars

\* after the loop: the manual events file, then `return cal`
ManualEvents ==
    /\ bcPhase = "loop"
    /\ bcD = end_d
    /\ \E file \in ManualFiles :
        LET added == manual_try(file, cal, seen_uids)
        IN /\ bcManual' = file
           /\ cal' = added.events
           /\ seen_uids' = added.seen_uids
           /\ bcPhase' = except_pass(added.raised)
    /\ UNCHANGED <<bcLoc, sunr, suns, bcTables, bcD>>
    /\ UNCHANGED notDayVars

DayNext ==
    \/ DayLoop
    \/ ManualEvents


\* ------------------------------------------------------------------------
\* Specifications
\* ------------------------------------------------------------------------
InitSeries == SeriesInit /\ EpochIdle /\ SamvIdle /\ RulesIdle /\ DayIdle /\ WalkIdle /\ SolarIdle /\ LunarIdle

SpecSeries == InitSeries /\ [][SeriesNext]_vars

InitEpoch == EpochInit /\ SeriesIdle /\ SamvIdle /\ RulesIdle /\ DayIdle /\ WalkIdle /\ SolarIdle /\ LunarIdle

SpecEpoch == InitEpoch /\ [][EpochNext]_vars

InitSamvatsara == SamvInit /\ SeriesIdle /\ EpochIdle /\ RulesIdle /\ DayIdle /\ WalkIdle /\ SolarIdle /\ LunarIdle

SpecSamvatsara == InitSamvatsara /\ [][SamvNext]_vars

InitRules == RulesInit /\ SeriesIdle /\ EpochIdle /\ SamvIdle /\ DayIdle /\ WalkIdle /\ SolarIdle /\ LunarIdle

SpecRules == InitRules /\ [][RulesNext]_vars

InitDay == DayInit /\ SeriesIdle /\ EpochIdle /\ SamvIdle /\ RulesIdle /\ WalkIdle /\ SolarIdle /\ LunarIdle

SpecDay == InitDay /\ [][DayNext]_vars

InitWalk == WalkInit /\ SeriesIdle /\ EpochIdle /\ SamvIdle /\ RulesIdle /\ DayIdle /\ SolarIdle /\ LunarIdle

SpecWalk == InitWalk /\ [][WalkNext]_vars

InitSolar ==
    SolarInit /\ SeriesIdle /\ EpochIdle /\ SamvIdle /\ RulesIdle /\ DayIdle /\ WalkIdle
              /\ LunarIdle

InitLunar ==
    LunarInit /\ SeriesIdle /\ EpochIdle /\ SamvIdle /\ RulesIdle /\ DayIdle /\ WalkIdle
              /\ SolarIdle

SpecSolar == InitSolar /\ [][SolarNext]_vars

SpecLunar == InitLunar /\ [][LunarNext]_vars

\* ------------------------------------------------------------------------
\* Properties of the samvatsara resolver
\* ------------------------------------------------------------------------
\* the samvatsara year of a date: its Gregorian year from the new-year date
\* on, the year before until then
SamvatsaraYear(d, ny) == IF d.n >= ny.n THEN d.year ELSE d.year - 1

\* the non-negative remainder of x by 60
Mod60(x) == CHOOSE r \in 0..59 : \E q \in -100..100 : x = 60 * q + r

\* C10: samvatsara_for_date returns SAMVATSARA_NAMES[(sy - 1987) mod 60], sy
\* being the date's year from that year's new-year date on and the year
\* before otherwise; dates at the same position (before, or on/after, the new
\* year) of consecutive years get pairwise different names for 60 years, and
\* the 61st year gets the name of the 1st.
C10_SamvatsaraCycle ==
    /\ (svLast # <<>>) =>
          svLast.name =
            SAMVATSARA_NAMES[Mod60(SamvatsaraYear(svLast.d, svLast.ny) - 1987) + 1]
    /\ \A i, j \in 1..Len(svNames) :
          /\ (i < j /\ j - i < 60) => svNames[i] # svNames[j]
          /\ (j - i = 60) => svNames[i] = svNames[j]

\* 61 consecutive years resolved, the last date falling on the new-year date itself
C10_Witness ==
    /\ Len(svNames) = 61
    /\ svLast.d = svLast.ny
    /\ svNames[61] = svNames[1]

\* ------------------------------------------------------------------------
\* Properties of the epoch resolver
\* ------------------------------------------------------------------------
\* the wrapped sidereal solar longitude at tick t
WrappedLon(z2, t) == wrap180(sun_sidereal_lon_deg(z2, t))

\* a negative-to-positive sign change between two consecutive samples of the bracket
SignChangeObserved(z2) ==
    \E k \in 0..(BracketDays * StepsPerDay - 1) :
        /\ WrappedLon(z2, BracketT0 + k * StepTicks) < 0
        /\ WrappedLon(z2, BracketT0 + (k + 1) * StepTicks) > 0

\* C1 (as claimed): when no negative-to-positive sign change is observed
\* between consecutive samples of the bracket, mesha_sankranti_utc fails with
\* EpochNotFound and returns no instant.
C1_NoSignChangeFails ==
    (epOp = "mesha" /\ ~SignChangeObserved(epIn.z2)) =>
        ingress.kind = "EpochNotFound"

\* what the code does instead: it returns the start of the bracket
NoSignChangeReturnsT0 ==
    (epOp = "mesha" /\ ~SignChangeObserved(epIn.z2)) =>
        ingress = [kind |-> "instant", t |-> BracketT0]

\* a new moon of the window that qualifies: sun longitude in [320, 360) and,
\* within the three scanned days, a sunrise carrying tithi 1
Qualifies(ev) ==
    /\ ev.phase = 0
    /\ UgadiLonLow <= ev.lon /\ ev.lon < UgadiLonHigh
    /\ \E off \in 0..(UgadiScanDays - 1) : ev.nosr # off /\ ev.tids[off + 1] = 1

\* C2 (as claimed): when no new moon of the window qualifies,
\* ugadi_civil_date reports a failure and returns no date.
C2_NoNewMoonFails ==
    (epOp = "ugadi" /\ ~(\E i \in 1..Len(epIn.events) : Qualifies(epIn.events[i]))) =>
        epOut.kind = "EpochNotFound"

\* what the code does instead: it returns April 1
NoNewMoonReturnsApril1 ==
    (epOp = "ugadi" /\ ~(\E i \in 1..Len(epIn.events) : Qualifies(epIn.events[i]))) =>
        epOut = [kind |-> "date", d |-> FallbackApril1]

\* C6 (as claimed): whenever the ingress's local date d has a sunset s,
\* puthandu_civil_date returns d if ingress <= s and d + 1 if ingress > s.
C6_SunsetRule ==
    (epOp = "puthandu" /\ SignChangeObserved(epIn.z2) /\ epIn.ss # None) =>
        epOut = [kind |-> "date",
                 d |-> IF ingress.t <= epIn.ss
                       THEN local_date(ingress.t)
                       ELSE local_date(ingress.t) + 1]

\* the rule does hold on the dates that have a sunrise as well
SunsetRuleGivenSunrise ==
    (epOp = "puthandu" /\ epIn.ss # None /\ epIn.sr # None) =>
        epOut = [kind |-> "date",
                 d |-> IF ingress.t <= epIn.ss
                       THEN local_date(ingress.t)
                       ELSE local_date(ingress.t) + 1]

\* ------------------------------------------------------------------------
\* Properties of the transition-table engine
\* ------------------------------------------------------------------------
StrictlyIncreasing(s) == \A i, j \in 1..Len(s) : i < j => s[i] < s[j]

Abs(x) == IF x < 0 THEN -x ELSE x

\* the entries of the series whose instant lies in the window, in series
\* order; the window's lower end is closed or open
EntriesInWindow(closedBelow, a, b) ==
    LET idx == {k \in 1..Len(changes) :
                    /\ (IF closedBelow THEN a <= changes[k] ELSE a < changes[k])
                    /\ changes[k] < b}
        ord == SortedSeq(idx)
    IN [n \in 1..Len(ord) |-> <<changes[ord[n]], values[ord[n]]>>]

\* the value of the last entry at or before t, the first value if there is none
LastAtOrBefore(t) ==
    LET idx == {k \in 1..Len(changes) : changes[k] <= t}
    IN IF idx = {} THEN values[1]
       ELSE values[CHOOSE k \in idx : \A m \in idx : m <= k]

\* precompute_discrete returns a strictly increasing list of instants
SeriesSorted == built => StrictlyIncreasing(changes) /\ Len(values) = Len(changes)

\* C3 (as claimed): on a series built by precompute_discrete from fn over
\* [0, MaxT], value_at(t) is the value fn takes at t or within one sampling
\* step of t, for every t of the horizon, also before the first recorded change.
C3_ValueAtEqualsFn ==
    (built /\ changes # <<>> /\ query.op = "value_at") =>
        /\ answer.kind = "value"
        /\ \E t2 \in Instants :
              Abs(t2 - query.a) <= SampleStep /\ fn[t2] = answer.v

\* from the first recorded change on, value_at does equal fn
ValueAtEqualsFnFromFirstChange ==
    (built /\ changes # <<>> /\ query.op = "value_at" /\ query.a >= changes[1]) =>
        answer.kind = "value" /\ answer.v = fn[query.a]

\* C4 (as claimed): transitions_between(a, b) returns exactly the entries
\* with a <= changeInstant < b, in series order.
C4_LowerBoundInclusive ==
    (query.op = "transitions_between" /\ StrictlyIncreasing(changes)) =>
        answer.trans = EntriesInWindow(TRUE, query.a, query.b)

\* C4 (amended): transitions_between(a, b) returns exactly the entries with
\* a < changeInstant < b, in series order; an entry at a itself is left out.
C4_LowerBoundExclusive ==
    (query.op = "transitions_between" /\ StrictlyIncreasing(changes)) =>
        answer.trans = EntriesInWindow(FALSE, query.a, query.b)

\* a window that starts exactly at a recorded change and holds later ones
C4_Witness ==
    /\ query.op = "transitions_between"
    /\ \E k \in 1..Len(changes) : changes[k] = query.a
    /\ Len(answer.trans) >= 1

\* C5: on a non-empty strictly increasing series value_at(t) is the value of
\* the last entry with changeInstant <= t, and the first value when t
\* precedes every entry.
C5_ValueAtLastEntry ==
    (query.op = "value_at" /\ changes # <<>> /\ StrictlyIncreasing(changes)) =>
        answer.kind = "value" /\ answer.v = LastAtOrBefore(query.a)

\* a lookup exactly at the instant of a later entry of the series
C5_Witness ==
    /\ query.op = "value_at"
    /\ Len(changes) >= 2
    /\ query.a = changes[2]
    /\ answer.v = values[2]

\* ------------------------------------------------------------------------
\* Properties of the calculators and the rule engine (SpecRules)
\* ------------------------------------------------------------------------
\* the daylight length of the day the calculators were applied to
DaylightLength == ruIn.ss - ruIn.sr

\* C8: every time-of-day partition calculator (rahu_yama_gulika,
\* gowri_good_time, durmuhurtham, abhijit_muhurtham) reports "N/A" whenever
\* the daylight length L = sunset - sunrise is <= 0, and returns no window
\* computed from a non-positive L.
C8_NonPositiveLengthIsNA ==
    (ruOp = "calculators" /\ DaylightLength <= 0) =>
        /\ ruOut.rahu_yama_gulika = NotAvailable
        /\ ruOut.gowri_good_time = NotAvailable
        /\ ruOut.durmuhurtham = NotAvailable
        /\ ruOut.abhijit_muhurtham = NotAvailable

\* the two calculators that test L do report "N/A" on a non-positive L
GuardedCalculatorsNA ==
    (ruOp = "calculators" /\ DaylightLength <= 0) =>
        /\ ruOut.rahu_yama_gulika = NotAvailable
        /\ ruOut.gowri_good_time = NotAvailable

\* the names of the rules of the day's list that match, in list order
MatchingRules ==
    LET rules == festival_rules(ruIn.style)
        m == SelectSeq(rules, LAMBDA r : rule_matched(r, ruIn.wd, ruIn.s_data, ruIn.l_data,
                                                      ruIn.t_now, ruIn.n_now))
    IN [k \in 1..Len(m) |-> m[k].name]

\* C9: when more than one rule of a location's festival rule list matches
\* the same civil day, check_rich_festivals reports only the first matching
\* rule in declared list order; it never returns two hits for one day.
C9_FirstInListWins ==
    (ruOp = "festivals") =>
        /\ Len(ruOut.hits) <= 1
        /\ (MatchingRules # <<>>) => ruOut.hits = <<MatchingRules[1]>>

\* check_rich_festivals reports every matching rule, in declared list order
AllMatchingRulesReported ==
    (ruOp = "festivals") => ruOut.hits = MatchingRules

\* ------------------------------------------------------------------------
\* Properties of the day loop (SpecDay)
\* ------------------------------------------------------------------------
\* the loop has run over the whole horizon start_d .. end_d - 1
LoopComplete == bcPhase \in {"loop", "done"} /\ bcD = end_d

Horizon == start_d..(end_d - 1)

\* the date has day-level output: its panchangam event is in the calendar
PanchangamPresent(x) == \E k \in DOMAIN cal : cal[k].uid = Uid("panchangam", x, "")

\* the date has a sunrise and a sunset of its own
HasOwnPair(x) == sunr[x] # None /\ suns[x] # None

\* C7: a civil date of the horizon is absent from day-level output exactly
\* when that date itself has no sunrise/sunset pair; every other date of the
\* horizon, the dates next to an unavailable one included, is present,
\* whether the missing event is the sunrise or the sunset.
C7_AbsentExactlyWithoutOwnPair ==
    LoopComplete => \A x \in Horizon : PanchangamPresent(x) <=> HasOwnPair(x)

\* what the loop does: a date is present exactly when it has its own pair and
\* the next date has a sunrise
PresentIffPairAndNextSunrise ==
    LoopComplete =>
        \A x \in Horizon : PanchangamPresent(x) <=> (HasOwnPair(x) /\ sunr[x + 1] # None)

\* a date that lacks only its sunset takes no other date with it
MissingSunsetDropsOnlyThatDate ==
    LoopComplete =>
        \A x \in Horizon :
            (HasOwnPair(x) /\ sunr[x + 1] # None) => PanchangamPresent(x)

\* the events derived from the sky, as opposed to the manual ones
AstroKinds == {"panchangam", "festival", "vratam"}

UniqueUids ==
    \A i, j \in DOMAIN cal :
        (cal[i].uid.kind \in AstroKinds /\ cal[i].uid = cal[j].uid) => i = j

\* one tithi occurrence (a table entry, hence a start) under one name has
\* one VRATAM event
OneEventPerOccurrence ==
    \A i, j \in DOMAIN cal :
        (cal[i].categories = "VRATAM" /\ cal[j].categories = "VRATAM"
            /\ cal[i].name = cal[j].name /\ cal[i].begin = cal[j].begin) => i = j

\* an event, once added, stays where and as it is
EmittedKept == \A k \in DOMAIN cal : k \in DOMAIN cal' /\ cal'[k] = cal[k]

\* C11: after any sequence of days no two emitted panchangam, festival or
\* vratam events share a UID; a tithi occurrence that satisfies a timed
\* vratam check on two consecutive days yields one VRATAM event, and the
\* first one emitted is kept unchanged.
C11_UidsUnique == [](UniqueUids /\ OneEventPerOccurrence) /\ [][EmittedKept]_vars

\* two consecutive dates were processed whose sunrises lie in the same
\* Ekadashi, and its event is in the calendar
C11_Witness ==
    /\ bcPhase = "loop"
    /\ \E k \in DOMAIN cal, x \in Horizon :
        /\ cal[k].categories = "VRATAM"
        /\ cal[k].name = "Ekadashi (Shukla)"
        /\ x + 1 < bcD
        /\ PanchangamPresent(x) /\ PanchangamPresent(x + 1)
        /\ cal[k].begin <= sunr[x] /\ sunr[x + 1] < cal[k].end

\* the astronomically derived events of a calendar, in order
AstroEvents(events) == SelectSeq(events, LAMBDA e : e.uid.kind \in AstroKinds)

\* the step that reads the manual events file
ManualStep == bcPhase = "loop" /\ bcPhase' # "loop"

\* a malformed manual source: not JSON, or an item without a name or with
\* an unparsable date
Malformed(file) ==
    /\ file.exists
    /\ \/ ~file.parses
       \/ \E k \in DOMAIN file.data : ~file.data[k].hasName \/ ~file.data[k].dateOk

\* C12: a malformed entry in the manual-events source never aborts
\* build_calendar and never removes or alters an astronomically derived
\* event: the panchangam, festival and vratam events are those of a run
\* without the manual file (which leaves cal as the loop built it).
C12_ManualIsolated ==
    /\ [](bcPhase # "aborted")
    /\ [][ManualStep => (bcPhase' = "done" /\ AstroEvents(cal') = cal)]_vars

\* a malformed file was read after a loop that added events
C12_Witness ==
    /\ bcPhase = "done"
    /\ Malformed(bcManual)
    /\ AstroEvents(cal) # <<>>
    /\ \E k \in DOMAIN cal : cal[k].uid.kind = "manual"

\* ------------------------------------------------------------------------
\* Properties of the rules over one lunar month (SpecWalk)
\* ------------------------------------------------------------------------
\* the logged hits of one rule
HitsOf(name) == {k \in DOMAIN wkLog : wkLog[k].name = name}

\* C13: the Varalakshmi Vratam rule matches only the last Friday before the
\* full moon: over the consecutive days of the waxing fortnight of lunar
\* month 4 at most one day matches, and no later Friday of that fortnight
\* with sunrise tithi <= 15 follows a matched day.
C13_LastFridayOnly ==
    (wkPhase = "month" /\ wkMonth = 4) =>
        /\ Cardinality(HitsOf("Varalakshmi Vratam")) <= 1
        /\ ~(wkWd = 4 /\ wkTithi <= 15 /\ HitsOf("Varalakshmi Vratam") # {})

\* what the rule does: it matches every Friday of month 4 whose sunrise
\* tithi is 9 .. 15
VaralakshmiOnFridays9To15 ==
    \A k \in HitsOf("Varalakshmi Vratam") :
        wkMonth = 4 /\ wkLog[k].wd = 4 /\ wkLog[k].t_now \in 9..15

\* the lunar-tithi rules of FESTIVALS_TE, and the tithi 1 .. 30 each names
LunarTithiRules == {k \in DOMAIN FESTIVALS_TE : FESTIVALS_TE[k].lunar_month_idx # -1}

TargetTithi(r) == r.tithi_idx + 15 * r.paksha_idx

\* the days of the rule's tithi are all behind: today's sunrise is past it
OccurrencePassed(r) ==
    /\ wkDay > 0
    /\ r.lunar_month_idx = wkMonth
    /\ wkPhase = "over" \/ wkTithi > TargetTithi(r)

\* C20: each lunar-tithi festival rule fires on exactly one civil day per
\* occurrence of its (lunar month, paksha, tithi), when the sunrise tithi
\* advances by 0, 1 or 2 a day through the month: not on two consecutive
\* days, not on zero days.
C20_ExactlyOneDay ==
    \A k \in LunarTithiRules :
        OccurrencePassed(FESTIVALS_TE[k]) =>
            Cardinality(HitsOf(FESTIVALS_TE[k].name)) = 1

\* what the rules do: a hit on every day whose sunrise tithi is the target,
\* which is no day, one day or two consecutive days
LunarHitsAreSunriseDays ==
    \A k \in LunarTithiRules :
        LET r == FESTIVALS_TE[k]
        IN /\ \A h \in HitsOf(r.name) :
                r.lunar_month_idx = wkMonth /\ wkLog[h].t_now = TargetTithi(r)
           /\ \A h, g \in HitsOf(r.name) :
                wkLog[h].day - wkLog[g].day \in {-1, 0, 1}

\* ------------------------------------------------------------------------
\* Properties of the timed vratams (SpecRules)
\* ------------------------------------------------------------------------
\* the rules of check_special_vratams_timed: reference instant and targets
VratamRules ==
    {[ref |-> ruIn.sr, targets |-> {11, 26}],
     [ref |-> ruIn.sr, targets |-> {6}],
     [ref |-> ruIn.ss - PradoshaOffset, targets |-> {13, 28}],
     [ref |-> local_night(ruIn.ss), targets |-> {19}]}

\* the tithi value_at samples at an instant
Sampled(r) == value_at(r, ruIn.changes, ruIn.values).v

\* some event's span is the table entry k and its successor, holds r, and
\* entry k has the sampled value
SpanAround(r) ==
    \E e \in DOMAIN ruOut.vratam_events, k \in 1..(Len(ruIn.changes) - 1) :
        /\ ruOut.vratam_events[e].start = ruIn.changes[k]
        /\ ruOut.vratam_events[e].end = ruIn.changes[k + 1]
        /\ ruIn.changes[k] <= r /\ r < ruIn.changes[k + 1]
        /\ ruIn.values[k] = Sampled(r)

\* C14: whenever the tithi sampled at a rule's reference instant r equals
\* one of the rule's targets, a VratamEvent is produced whose span is two
\* consecutive table instants with start <= r < end and the table value at
\* start equal to the target; for every r, also before the first table
\* entry and at or after the last.
C14_SpanBoundsReference ==
    (ruOp = "vratams") =>
        \A rule \in VratamRules :
            Sampled(rule.ref) \in rule.targets => SpanAround(rule.ref)

\* the same, for a reference instant from the first table entry on and
\* before the last
SpanBoundsReferenceInsideTable ==
    (ruOp = "vratams") =>
        \A rule \in VratamRules :
            (/\ Sampled(rule.ref) \in rule.targets
             /\ ruIn.changes[1] <= rule.ref
             /\ rule.ref < ruIn.changes[Len(ruIn.changes)]) => SpanAround(rule.ref)

\* ------------------------------------------------------------------------
\* Properties of the solar month map (SpecSolar)
\* ------------------------------------------------------------------------
MonthStartsBuilt == soPhase \in {"starts", "done"}

\* C15: month_day_numbers_solar assigns each month start by the same sunset
\* cutover as puthandu_civil_date: for every ingress and every sunset
\* outcome of its local date (before, at, after the ingress, unavailable)
\* the month start is recorded on the date puthandu_civil_date's rule gives
\* for the same ingress and sunset.
C15_SameSunsetCutover ==
    MonthStartsBuilt =>
        \A k \in DOMAIN soIn.ings :
            LET i == soIn.ings[k]
            IN soStarts[puthandu_rule(i.t, i.sr, i.ss)] = i.rasi

\* the two rules agree when the date has both events and the ingress is not
\* at the very instant of the sunset
SameCutoverAwayFromEdges ==
    MonthStartsBuilt =>
        \A k \in DOMAIN soIn.ings :
            LET i == soIn.ings[k]
            IN (i.sr # None /\ i.ss # None /\ i.t # i.ss) =>
                    soStarts[puthandu_rule(i.t, i.sr, i.ss)] = i.rasi

MapDays == so_start_d..so_end_d

\* C16: in the map of month_day_numbers_solar the day ordinal of every day
\* of [start_d, end_d] is >= 1, is 1 exactly on the recorded month starts of
\* the range, and otherwise is the previous day's ordinal + 1 with the
\* month index of the previous day.
C16_OrdinalResets ==
    (soPhase = "done") =>
        \A x \in MapDays :
            /\ soRes[x].day >= 1
            /\ soRes[x].day = 1 <=> soStarts[x] # None
            /\ (x > so_start_d /\ soStarts[x] = None) =>
                    /\ soRes[x].day = soRes[x - 1].day + 1
                    /\ soRes[x].midx = soRes[x - 1].midx

\* a month starts inside the range, on the day after a day of ordinal >= 2
C16_Witness ==
    /\ soPhase = "done"
    /\ \E x \in MapDays :
        /\ x > so_start_d
        /\ soStarts[x] # None
        /\ soRes[x].day = 1
        /\ soRes[x - 1].day >= 2
        /\ soRes[x].midx # soRes[x - 1].midx

\* ------------------------------------------------------------------------
\* Properties of the lunar month map
\* ------------------------------------------------------------------------
\* the instants at which the table enters tithi 1
Tithi1Starts ==
    {luIn.table.changes[i] : i \in {j \in DOMAIN luIn.table.changes : luIn.table.values[j] = 1}}

StartsBefore(sr) == {t \in Tithi1Starts : t < sr}

LatestBefore(sr) == CHOOSE t \in StartsBefore(sr) : \A u \in StartsBefore(sr) : u <= t

\* C17: a date of the range that has a sunrise, with a start of tithi 1
\* strictly before it, gets the index (solar rasi at T + 1) mod 12 of the
\* latest such start T; a start exactly at the sunrise does not count yet.
C17_LatestStartBeforeSunrise ==
    luPhase = "done" =>
        \A x \in LunarDays :
            (luIn.sunrises[x] # None /\ StartsBefore(luIn.sunrises[x]) # {}) =>
                luRes[x] = (solar_rasi_idx(LatestBefore(luIn.sunrises[x]), luIn.r0, luIn.shift) + 1) % 12

\* tithi 1 begins exactly at a sunrise of the range, under another index
\* than the month before it, and that date still has the earlier index
C17_Witness ==
    /\ luPhase = "done"
    /\ \E x \in LunarDays :
        /\ luIn.sunrises[x] # None
        /\ luIn.sunrises[x] \in Tithi1Starts
        /\ StartsBefore(luIn.sunrises[x]) # {}
        /\ luRes[x] # (solar_rasi_idx(luIn.sunrises[x], luIn.r0, luIn.shift) + 1) % 12
        /\ luRes[x] = (solar_rasi_idx(LatestBefore(luIn.sunrises[x]), luIn.r0, luIn.shift) + 1) % 12

\* ------------------------------------------------------------------------
\* Properties of the bracket and the bisection of mesha_sankranti_utc
\* ------------------------------------------------------------------------
\* the samples of the while loop
BracketSamples == {BracketT0 + k * StepTicks : k \in 0..(BracketDays * StepsPerDay)}

\* the longitude is negative where the bracket starts and positive where it
\* ends (it increases throughout: the sun moves forward at every tick)
CrossesInBracket(z2) ==
    /\ WrappedLon(z2, BracketT0) < 0
    /\ WrappedLon(z2, BracketT1) > 0

\* the returned instant lies in a pair of consecutive samples that encloses
\* the crossing, the longitude is <= 0 there, and > 0 at an instant hi no
\* further above it than the bisection can still separate
BracketedCrossing(z2, lo) ==
    \E a \in BracketSamples \ {BracketT1} :
        /\ WrappedLon(z2, a) <= 0
        /\ WrappedLon(z2, a + StepTicks) >= 0
        /\ a <= lo /\ lo <= a + StepTicks
        /\ WrappedLon(z2, lo) <= 0
        /\ \E hi \in lo..(a + StepTicks) :
              /\ WrappedLon(z2, hi) > 0
              /\ hi - lo <= 1

\* C18 (as claimed): with the longitude negative at the start of the bracket
\* and positive at its end, mesha_sankranti_utc finds a bracketing pair of
\* consecutive samples and returns an instant lo inside it with longitude
\* <= 0 at lo and > 0 at the final hi; also when a sample has longitude 0.
C18_BracketFoundAlsoAtZero ==
    (epOp = "mesha" /\ CrossesInBracket(epIn.z2)) =>
        BracketedCrossing(epIn.z2, ingress.t)

\* a sample of the bracket has longitude exactly 0
SampleOnZero(z2) == \E a \in BracketSamples : WrappedLon(z2, a) = 0

\* what the code does: the claim's result whenever no sample has longitude 0
BracketFoundAwayFromZero ==
    (epOp = "mesha" /\ CrossesInBracket(epIn.z2) /\ ~SampleOnZero(epIn.z2)) =>
        BracketedCrossing(epIn.z2, ingress.t)

\* and the start of the bracket whenever one has
SampleOnZeroReturnsT0 ==
    (epOp = "mesha" /\ CrossesInBracket(epIn.z2) /\ SampleOnZero(epIn.z2)) =>
        ingress = [kind |-> "instant", t |-> BracketT0]

\* ------------------------------------------------------------------------
\* Satisfiability of the festival rules in a location's own run
\* ------------------------------------------------------------------------
\* what build_calendar can pass as s_data and l_data: a solar month name and
\* day for TAMIL and no lunar map, a lunar month index for TELUGU and no
\* solar map
SolarData(style) ==
    IF style = "TAMIL"
    THEN {[mname |-> SOLAR_MONTH_NAMES_TA[mi], day |-> dd] : mi \in 1..12, dd \in 1..32}
    ELSE {NoSolar}

LunarData(style) ==
    IF style = "TELUGU" THEN {[midx |-> mi] : mi \in 0..11} ELSE {NoLunar}

\* some daily state of the style makes rule r match
Satisfiable(style, r) ==
    \E s_data \in SolarData(style), l_data \in LunarData(style),
       t_now \in 1..NumTithi, n_now \in 1..NumNakshatra, wd \in 0..6 :
        rule_matched(r, wd, s_data, l_data, t_now, n_now)

\* C19 (as claimed): every rule of the list check_rich_festivals selects
\* for a style can match on some daily state build_calendar passes for that
\* style; in particular the common lunar rules for TAMIL and Bhogi for TELUGU.
C19_EveryRuleSatisfiable ==
    (ruOp = "festivals") =>
        \A i \in DOMAIN festival_rules(ruIn.style) :
            Satisfiable(ruIn.style, festival_rules(ruIn.style)[i])

CommonNames == {COMMON_FESTIVALS[i].name : i \in DOMAIN COMMON_FESTIVALS}

HitNames == {ruOut.hits[k] : k \in DOMAIN ruOut.hits}

\* what the code does: no common lunar rule is ever reported for TAMIL,
\* whose l_data is always absent, and Bhogi never for TELUGU
LunarRulesNeverForTamil ==
    (ruOp = "festivals" /\ ruIn.style = "TAMIL") => HitNames \cap CommonNames = {}

BhogiNeverForTelugu ==
    (ruOp = "festivals" /\ ruIn.style = "TELUGU") => "Bhogi" \notin HitNames

\* ------------------------------------------------------------------------
\* The Tamil new year against the solar month map
\* ------------------------------------------------------------------------
\* the ingresses into Mesha (rasi 0) whose new-year date lies in the map
MeshaIngresses ==
    {k \in DOMAIN soIn.ings :
        /\ soIn.ings[k].rasi = 0
        /\ puthandu_rule(soIn.ings[k].t, soIn.ings[k].sr, soIn.ings[k].ss) \in MapDays}

\* the "Tamil Puthandu" rule of FESTIVALS_TA matches on the map's entry for x
PuthanduRuleMatches(x) ==
    /\ soRes[x].midx # None
    /\ rule_matched(FESTIVALS_TA[5], 0,
                    [mname |-> SOLAR_MONTH_NAMES_TA[soRes[x].midx + 1], day |-> soRes[x].day],
                    NoLunar, 1, 1)

\* C21 (as claimed): for every Mesha ingress and sunset outcome, the date
\* puthandu_civil_date returns is the day the solar month map labels month
\* index 0 (Chithirai) with day ordinal 1, the day the "Tamil Puthandu"
\* rule matches.
C21_PuthanduIsChithiraiOne ==
    (soPhase = "done") =>
        \A k \in MeshaIngresses :
            LET i == soIn.ings[k]
                ny == puthandu_rule(i.t, i.sr, i.ss)
            IN /\ soRes[ny] = [midx |-> 0, day |-> 1]
               /\ PuthanduRuleMatches(ny)

\* what the code does: the two agree when the ingress's date has both a
\* sunrise and a sunset and the ingress is not at the instant of the sunset
PuthanduIsChithiraiOneAwayFromEdges ==
    (soPhase = "done") =>
        \A k \in MeshaIngresses :
            LET i == soIn.ings[k]
                ny == puthandu_rule(i.t, i.sr, i.ss)
            IN (i.sr # None /\ i.ss # None /\ i.t # i.ss) =>
                    /\ soRes[ny] = [midx |-> 0, day |-> 1]
                    /\ PuthanduRuleMatches(ny)

\* and otherwise (no sunset, the ingress at the sunset, or after the sunset
\* of a date without sunrise) the month starts a day after the new year
PuthanduOffByOneAtEdges ==
    (soPhase = "done") =>
        \A k \in MeshaIngresses :
            LET i == soIn.ings[k]
                ny == puthandu_rule(i.t, i.sr, i.ss)
            IN (i.ss = None \/ i.t = i.ss \/ (i.sr = None /\ i.t > i.ss)) =>
                    /\ ~PuthanduRuleMatches(ny)
                    /\ month_start_date(i.t, i.sr, i.ss) = ny + 1

\* ------------------------------------------------------------------------
\* The Telugu new year against the lunar month map
\* ------------------------------------------------------------------------
\* the new moons ugadi_civil_date went through
UgadiMoons == new_moon_events(luIn.table, luIn.r0, luIn.shift, luIn.sunrises)

\* the date was found by the scan of a new moon, and the map covers it
UgadiFoundInMap ==
    /\ luPhase = "done"
    /\ \E i \in DOMAIN UgadiMoons : Qualifies(UgadiMoons[i])
    /\ luNy.d \in LunarDays

\* the new moon whose scan gave the date: the first that qualifies
AcceptedMoon ==
    UgadiMoons[CHOOSE i \in DOMAIN UgadiMoons :
                    /\ Qualifies(UgadiMoons[i])
                    /\ \A j \in 1..(i - 1) : ~Qualifies(UgadiMoons[j])]

\* tithi_idx at the sunrise of date x
SunriseTithi(x) == lu_tithi_idx(luIn.table, luIn.sunrises[x])

\* the "Ugadi" rule of FESTIVALS_TE matches on date x
UgadiRuleMatches(x) ==
    /\ luIn.sunrises[x] # None
    /\ rule_matched(FESTIVALS_TE[4], 0, NoSolar, [midx |-> luRes[x]], SunriseTithi(x), 1)

\* C22 (as claimed): a date ugadi_civil_date found by its new-moon scan is
\* labelled lunar month index 0 (Chaitra) by get_lunar_month_map and has
\* sunrise tithi 1, so that the "Ugadi" rule matches on it; for every
\* accepted longitude of [320, 360) and also with two new moons in the window.
C22_UgadiIsChaitraOne ==
    UgadiFoundInMap =>
        /\ luRes[luNy.d] = 0
        /\ SunriseTithi(luNy.d) = 1
        /\ UgadiRuleMatches(luNy.d)

\* what the code does: the sunrise tithi of the date is always 1
UgadiSunriseTithiOne == UgadiFoundInMap => SunriseTithi(luNy.d) = 1

\* the date is Chaitra 1 when the accepted new moon has the sun in Meena
\* (330 degrees and more) and tithi 1 did not begin at the very sunrise
UgadiIsChaitraOneInMeena ==
    (UgadiFoundInMap /\ AcceptedMoon.lon >= 330 /\ luIn.sunrises[luNy.d] \notin Tithi1Starts) =>
        /\ luRes[luNy.d] = 0
        /\ UgadiRuleMatches(luNy.d)

\* with the sun still in Kumbha (320 to 330 degrees) the date is labelled
\* month 11 and the rule does not match on it
UgadiInKumbhaIsPhalguna ==
    (UgadiFoundInMap /\ AcceptedMoon.lon < 330 /\ luIn.sunrises[luNy.d] \notin Tithi1Starts) =>
        /\ luRes[luNy.d] = 11
        /\ ~UgadiRuleMatches(luNy.d)

\* with tithi 1 beginning exactly at the sunrise the date has sunrise tithi
\* 1 but still the index of the month that began before it
UgadiAtSunriseKeepsOldMonth ==
    (UgadiFoundInMap /\ luIn.sunrises[luNy.d] \in Tithi1Starts) =>
        /\ StartsBefore(luIn.sunrises[luNy.d]) # {}
        /\ luRes[luNy.d] =
              (solar_rasi_idx(LatestBefore(luIn.sunrises[luNy.d]), luIn.r0, luIn.shift) + 1) % 12

\* ------------------------------------------------------------------------
\* value_at and transitions_between over one window
\* ------------------------------------------------------------------------
\* cur = value_at(a0, ...) as the segment builders take it
WindowStartValue == value_at(query.a, changes, values)

\* the value the listed transitions give at t: that of the last listed pair
\* at or before t, the window's start value when there is none
ListedValueAt(t) ==
    LET upto == {k \in DOMAIN answer.trans : answer.trans[k][1] <= t}
    IN IF upto = {} THEN WindowStartValue.v
       ELSE answer.trans[CHOOSE k \in upto : \A j \in upto : j <= k][2]

\* the entry of the series value_at(a) takes its value from
StartEntry ==
    LET i == bisect_right(changes, query.a) - 1
    IN IF i < 0 THEN 1 ELSE i + 1

\* the window's lookups agree, and the entry behind the start value is not
\* listed again, nor is any transition listed at the window's first instant
WindowConsistent ==
    /\ \A t \in Instants :
          (query.a <= t /\ t < query.b) =>
              /\ value_at(t, changes, values).kind = "value"
              /\ value_at(t, changes, values).v = ListedValueAt(t)
    /\ \A k \in DOMAIN answer.trans :
          /\ answer.trans[k][1] # changes[StartEntry]
          /\ answer.trans[k][1] > query.a

\* C23 (as claimed): for every strictly increasing series and a <= t < b,
\* value_at(t) is the value of the last pair of transitions_between(a, b) at
\* or before t, or value_at(a) if there is none, and no transition is both
\* reflected in value_at(a) and listed in transitions_between(a, b).
C23_WindowPartition ==
    (query.op = "transitions_between" /\ changes # <<>> /\ StrictlyIncreasing(changes)) =>
        WindowConsistent

\* what the code does: the claim's result for a window that starts at or
\* after the first entry of the series
WindowPartitionFromFirstEntry ==
    (query.op = "transitions_between" /\ changes # <<>> /\ StrictlyIncreasing(changes)
        /\ query.a >= changes[1]) =>
        WindowConsistent

\* a window that starts before the first entry and reaches past it lists
\* that entry although its value is already the window's start value
FirstEntryCountedTwice ==
    (query.op = "transitions_between" /\ changes # <<>> /\ StrictlyIncreasing(changes)
        /\ query.a < changes[1] /\ changes[1] < query.b) =>
        /\ answer.trans[1] = <<changes[1], values[1]>>
        /\ WindowStartValue.v = values[1]


====
